---- MODULE Spec2Model ----
(***************************************************************************)
(* Model of the test-result intelligence engine of gauge-html-report-ai:  *)
(* error classification, signature normalisation and hashing, failure      *)
(* grouping with severity and suggested fix (pkg/ai/analyzer.go).          *)
(* Strings are TLA+ strings over printable ASCII; Len, \o and SubSeq act   *)
(* on them as Go's len, + and slicing act on ASCII strings.                *)
(***************************************************************************)
EXTENDS Integers, Sequences, FiniteSets, Bags, TLC

-----------------------------------------------------------------------------
(* Strings: the Go standard-library operations the analyzer calls.         *)

\* the characters of codes 32..95 and 97..126 (the back quote, code 96,
\* cannot be written in a string here and is left out of the alphabet)
PrintableLo ==
    " !\"#$%&'()*+,-./0123456789:;<=>?@ABCDEFGHIJKLMNOPQRSTUVWXYZ[\\]^_"
PrintableHi ==
    "abcdefghijklmnopqrstuvwxyz{|}~"

CharAt(s, i) == SubSeq(s, i, i)

\* byte values of the characters of codes 9, 10, 12, 13, 32..95, 97..126
CodeTable ==
    <<9, 10, 12, 13>> \o [i \in 1..64 |-> 31 + i] \o [i \in 1..30 |-> 96 + i]
CodeChars == "\t\n\f\r" \o PrintableLo \o PrintableHi

\* byte value of a one-character string
CodeOf(c) == CodeTable[CHOOSE i \in 1..Len(CodeChars) : CharAt(CodeChars, i) = c]

UpperLetters == "ABCDEFGHIJKLMNOPQRSTUVWXYZ"
LowerLetters == "abcdefghijklmnopqrstuvwxyz"

LowerChar(c) ==
    IF \E i \in 1..26 : CharAt(UpperLetters, i) = c
    THEN CharAt(LowerLetters, CHOOSE i \in 1..26 : CharAt(UpperLetters, i) = c)
    ELSE c

UpperChar(c) ==
    IF \E i \in 1..26 : CharAt(LowerLetters, i) = c
    THEN CharAt(UpperLetters, CHOOSE i \in 1..26 : CharAt(LowerLetters, i) = c)
    ELSE c

RECURSIVE ToLower(_)
ToLower(s) ==
    IF Len(s) = 0 THEN ""
    ELSE LowerChar(CharAt(s, 1)) \o ToLower(SubSeq(s, 2, Len(s)))

RECURSIVE ToUpper(_)
ToUpper(s) ==
    IF Len(s) = 0 THEN ""
    ELSE UpperChar(CharAt(s, 1)) \o ToUpper(SubSeq(s, 2, Len(s)))

\* strings.Contains
StrContains(s, pat) ==
    \E i \in 1..(Len(s) - Len(pat) + 1) : SubSeq(s, i, i + Len(pat) - 1) = pat

IsDigit(c)    == c \in {"0", "1", "2", "3", "4", "5", "6", "7", "8", "9"}
IsLowerHex(c) == IsDigit(c) \/ c \in {"a", "b", "c", "d", "e", "f"}
\* the class \s of Go's regexp: [\t\n\f\r ]
IsSpace(c)    == c \in {" ", "\t", "\n", "\f", "\r"}

-----------------------------------------------------------------------------
(* crypto/md5 and encoding/hex.  A 32-bit word is a tuple of four bytes,   *)
(* least significant first, so that no intermediate value leaves the       *)
(* range of the integers TLC computes with.                                *)

Pow2(n) == 2 ^ n

RECURSIVE BitOp(_, _, _, _)
\* op: 1 and, 2 or, 3 xor, on the low n bits of a and b
BitOp(op, a, b, n) ==
    IF n = 0 THEN 0
    ELSE LET u == a % 2
             v == b % 2
             r == IF op = 1 THEN u * v
                  ELSE IF op = 2 THEN (IF u + v > 0 THEN 1 ELSE 0)
                  ELSE (u + v) % 2
         IN r + 2 * BitOp(op, a \div 2, b \div 2, n - 1)

\* the three operations on nibbles, tabulated once: entry 16*a + b + 1
\* (SubSeq turns the function into a tuple of computed values)
AndNibble ==
    SubSeq([k \in 1..256 |-> BitOp(1, (k - 1) \div 16, (k - 1) % 16, 4)], 1, 256)
OrNibble ==
    SubSeq([k \in 1..256 |-> BitOp(2, (k - 1) \div 16, (k - 1) % 16, 4)], 1, 256)
XorNibble ==
    SubSeq([k \in 1..256 |-> BitOp(3, (k - 1) \div 16, (k - 1) % 16, 4)], 1, 256)

And8(a, b) ==
    16 * AndNibble[16 * (a \div 16) + (b \div 16) + 1]
       + AndNibble[16 * (a % 16) + (b % 16) + 1]
Or8(a, b) ==
    16 * OrNibble[16 * (a \div 16) + (b \div 16) + 1]
       + OrNibble[16 * (a % 16) + (b % 16) + 1]
Xor8(a, b) ==
    16 * XorNibble[16 * (a \div 16) + (b \div 16) + 1]
       + XorNibble[16 * (a % 16) + (b % 16) + 1]
Not8(a)    == 255 - a

WAnd(x, y) ==
    <<And8(x[1], y[1]), And8(x[2], y[2]), And8(x[3], y[3]), And8(x[4], y[4])>>
WOr(x, y) ==
    <<Or8(x[1], y[1]), Or8(x[2], y[2]), Or8(x[3], y[3]), Or8(x[4], y[4])>>
WXor(x, y) ==
    <<Xor8(x[1], y[1]), Xor8(x[2], y[2]), Xor8(x[3], y[3]), Xor8(x[4], y[4])>>
WNot(x) == <<Not8(x[1]), Not8(x[2]), Not8(x[3]), Not8(x[4])>>

\* addition modulo 2^32
WAdd(x, y) ==
    LET s1 == x[1] + y[1]
        s2 == x[2] + y[2] + (s1 \div 256)
        s3 == x[3] + y[3] + (s2 \div 256)
        s4 == x[4] + y[4] + (s3 \div 256)
    IN <<s1 % 256, s2 % 256, s3 % 256, s4 % 256>>

\* rotate left by n bits, 0 < n < 32
WRotl(x, n) ==
    LET q == n \div 8
        r == n % 8
        src(j) == x[((j - 1 - q) % 4) + 1]
        out(j) == ((src(j) * Pow2(r)) % 256) + (src(j - 1) \div Pow2(8 - r))
    IN <<out(1), out(2), out(3), out(4)>>

MD5Shift ==
    << 7, 12, 17, 22, 7, 12, 17, 22, 7, 12, 17, 22, 7, 12, 17, 22,
       5,  9, 14, 20, 5,  9, 14, 20, 5,  9, 14, 20, 5,  9, 14, 20,
       4, 11, 16, 23, 4, 11, 16, 23, 4, 11, 16, 23, 4, 11, 16, 23,
       6, 10, 15, 21, 6, 10, 15, 21, 6, 10, 15, 21, 6, 10, 15, 21 >>

\* floor(2^32 * |sin(i)|), i = 1..64, as little-endian bytes
MD5K ==
    <<
      <<120, 164, 106, 215>>, <<86, 183, 199, 232>>, <<219, 112, 32, 36>>, <<238, 206, 189, 193>>,
      <<175, 15, 124, 245>>, <<42, 198, 135, 71>>, <<19, 70, 48, 168>>, <<1, 149, 70, 253>>,
      <<216, 152, 128, 105>>, <<175, 247, 68, 139>>, <<177, 91, 255, 255>>, <<190, 215, 92, 137>>,
      <<34, 17, 144, 107>>, <<147, 113, 152, 253>>, <<142, 67, 121, 166>>, <<33, 8, 180, 73>>,
      <<98, 37, 30, 246>>, <<64, 179, 64, 192>>, <<81, 90, 94, 38>>, <<170, 199, 182, 233>>,
      <<93, 16, 47, 214>>, <<83, 20, 68, 2>>, <<129, 230, 161, 216>>, <<200, 251, 211, 231>>,
      <<230, 205, 225, 33>>, <<214, 7, 55, 195>>, <<135, 13, 213, 244>>, <<237, 20, 90, 69>>,
      <<5, 233, 227, 169>>, <<248, 163, 239, 252>>, <<217, 2, 111, 103>>, <<138, 76, 42, 141>>,
      <<66, 57, 250, 255>>, <<129, 246, 113, 135>>, <<34, 97, 157, 109>>, <<12, 56, 229, 253>>,
      <<68, 234, 190, 164>>, <<169, 207, 222, 75>>, <<96, 75, 187, 246>>, <<112, 188, 191, 190>>,
      <<198, 126, 155, 40>>, <<250, 39, 161, 234>>, <<133, 48, 239, 212>>, <<5, 29, 136, 4>>,
      <<57, 208, 212, 217>>, <<229, 153, 219, 230>>, <<248, 124, 162, 31>>, <<101, 86, 172, 196>>,
      <<68, 34, 41, 244>>, <<151, 255, 42, 67>>, <<167, 35, 148, 171>>, <<57, 160, 147, 252>>,
      <<195, 89, 91, 101>>, <<146, 204, 12, 143>>, <<125, 244, 239, 255>>, <<209, 93, 132, 133>>,
      <<79, 126, 168, 111>>, <<224, 230, 44, 254>>, <<20, 67, 1, 163>>, <<161, 17, 8, 78>>,
      <<130, 126, 83, 247>>, <<53, 242, 58, 189>>, <<187, 210, 215, 42>>, <<145, 211, 134, 235>>
    >>

MD5InitState ==
    << <<1, 35, 69, 103>>, <<137, 171, 205, 239>>,
       <<254, 220, 186, 152>>, <<118, 84, 50, 16>> >>

RECURSIVE StrBytes(_)
StrBytes(s) ==
    IF Len(s) = 0 THEN <<>>
    ELSE <<CodeOf(CharAt(s, 1))>> \o StrBytes(SubSeq(s, 2, Len(s)))

\* the message, 0x80, zero bytes up to 56 mod 64, the bit length in 8
\* little-endian bytes (messages here are shorter than 2^21 bytes, so the
\* upper five length bytes are 0)
MD5Pad(bytes) ==
    LET n     == Len(bytes)
        zeros == (119 - n) % 64
        bits  == n * 8
    IN bytes \o <<128>> \o [i \in 1..zeros |-> 0]
             \o [i \in 1..8 |->
                   IF i <= 3 THEN (bits \div Pow2(8 * (i - 1))) % 256 ELSE 0]

\* the 32-bit word g (0..15) of the block starting at byte offset off
MD5Word(padded, off, g) ==
    <<padded[off + 4 * g + 1], padded[off + 4 * g + 2],
      padded[off + 4 * g + 3], padded[off + 4 * g + 4]>>

RECURSIVE MD5Rounds(_, _, _, _)
\* steps i..63 of one block; st = <<a, b, c, d>>.  The test on st makes
\* each step compute its state before the next one starts.
MD5Rounds(st, padded, off, i) ==
    IF i = 64 \/ Len(st) # 4 THEN st
    ELSE LET a == st[1]
             b == st[2]
             c == st[3]
             d == st[4]
             f == IF i < 16 THEN WOr(WAnd(b, c), WAnd(WNot(b), d))
                  ELSE IF i < 32 THEN WOr(WAnd(d, b), WAnd(WNot(d), c))
                  ELSE IF i < 48 THEN WXor(WXor(b, c), d)
                  ELSE WXor(c, WOr(b, WNot(d)))
             g == IF i < 16 THEN i
                  ELSE IF i < 32 THEN (5 * i + 1) % 16
                  ELSE IF i < 48 THEN (3 * i + 5) % 16
                  ELSE (7 * i) % 16
             t == WAdd(WAdd(WAdd(f, a), MD5K[i + 1]), MD5Word(padded, off, g))
         IN MD5Rounds(<<d, WAdd(b, WRotl(t, MD5Shift[i + 1])), b, c>>,
                      padded, off, i + 1)

RECURSIVE MD5Blocks(_, _, _)
MD5Blocks(st, padded, off) ==
    IF off >= Len(padded) THEN st
    ELSE LET r == MD5Rounds(st, padded, off, 0)
         IN MD5Blocks(<<WAdd(st[1], r[1]), WAdd(st[2], r[2]),
                        WAdd(st[3], r[3]), WAdd(st[4], r[4])>>,
                      padded, off + 64)

\* md5.Sum: the 16 digest bytes
MD5Sum(bytes) ==
    LET st == MD5Blocks(MD5InitState, MD5Pad(bytes), 0)
    IN st[1] \o st[2] \o st[3] \o st[4]

HexDigits == "0123456789abcdef"

RECURSIVE HexEncodeToString(_)
HexEncodeToString(bytes) ==
    IF Len(bytes) = 0 THEN ""
    ELSE CharAt(HexDigits, (bytes[1] \div 16) + 1)
         \o CharAt(HexDigits, (bytes[1] % 16) + 1)
         \o HexEncodeToString(Tail(bytes))

-----------------------------------------------------------------------------
(* pkg/ai/analyzer.go: error kinds, classification, signature.             *)

ErrorTypeAssertion   == "Assertion Failure"
ErrorTypeTimeout     == "Timeout"
ErrorTypeNetwork     == "Network Error"
ErrorTypeNullPointer == "Null Pointer"
ErrorTypeFileSystem  == "File System"
ErrorTypeDatabase    == "Database"
ErrorTypeEnvironment == "Environment"
ErrorTypeUnknown     == "Unknown Error"

ErrorTypes ==
    {ErrorTypeAssertion, ErrorTypeTimeout, ErrorTypeNetwork,
     ErrorTypeNullPointer, ErrorTypeFileSystem, ErrorTypeDatabase,
     ErrorTypeEnvironment, ErrorTypeUnknown}

assertionPatterns ==
    <<"assertion", "assert", "expected", "actual", "should be",
      "must be", "equals", "not equal">>
networkPatterns ==
    <<"connection refused", "network", "socket", "http",
      "connection reset", "connection closed", "dns">>
filePatterns ==
    <<"file not found", "no such file", "permission denied",
      "directory", "path">>
dbPatterns ==
    <<"database", "sql", "query", "transaction",
      "duplicate key", "constraint">>
envPatterns ==
    <<"environment", "config", "configuration",
      "property", "variable not set">>

\* the loop "for _, pattern := range patterns { if strings.Contains ... }"
AnyPattern(combined, patterns) ==
    \E i \in 1..Len(patterns) : StrContains(combined, patterns[i])

\* variant: the timeout patterns are tested before the assertion patterns
ClassifyErrorTimeoutFirst(errorMsg, stackTrace) ==
    LET combined == ToLower(errorMsg \o " " \o stackTrace)
    IN IF StrContains(combined, "timeout")
          \/ StrContains(combined, "timed out")
          \/ StrContains(combined, "deadline exceeded")
       THEN ErrorTypeTimeout
       ELSE IF AnyPattern(combined, assertionPatterns) THEN ErrorTypeAssertion
       ELSE IF AnyPattern(combined, networkPatterns) THEN ErrorTypeNetwork
       ELSE IF StrContains(combined, "null")
               \/ StrContains(combined, "nil")
               \/ StrContains(combined, "none")
       THEN ErrorTypeNullPointer
       ELSE IF AnyPattern(combined, filePatterns) THEN ErrorTypeFileSystem
       ELSE IF AnyPattern(combined, dbPatterns) THEN ErrorTypeDatabase
       ELSE IF AnyPattern(combined, envPatterns) THEN ErrorTypeEnvironment
       ELSE ErrorTypeUnknown

ClassifyError(errorMsg, stackTrace) ==
    LET combined == ToLower(errorMsg \o " " \o stackTrace)
    IN IF AnyPattern(combined, assertionPatterns) THEN ErrorTypeAssertion
       ELSE IF StrContains(combined, "timeout")
               \/ StrContains(combined, "timed out")
               \/ StrContains(combined, "deadline exceeded")
       THEN ErrorTypeTimeout
       ELSE IF AnyPattern(combined, networkPatterns) THEN ErrorTypeNetwork
       ELSE IF StrContains(combined, "null")
               \/ StrContains(combined, "nil")
               \/ StrContains(combined, "none")
       THEN ErrorTypeNullPointer
       ELSE IF AnyPattern(combined, filePatterns) THEN ErrorTypeFileSystem
       ELSE IF AnyPattern(combined, dbPatterns) THEN ErrorTypeDatabase
       ELSE IF AnyPattern(combined, envPatterns) THEN ErrorTypeEnvironment
       ELSE ErrorTypeUnknown

\* length of the maximal run of characters satisfying the class cls that
\* starts at position i of s (cls: 1 digit, 2 non-space)
InClass(cls, c) == IF cls = 1 THEN IsDigit(c) ELSE ~IsSpace(c)

RECURSIVE RunLen(_, _, _)
RunLen(cls, s, i) ==
    IF i > Len(s) \/ ~InClass(cls, CharAt(s, i)) THEN 0
    ELSE 1 + RunLen(cls, s, i + 1)

RECURSIVE ReplaceDigitRuns(_)
\* regexp `\d+` replaced by "N"
ReplaceDigitRuns(s) ==
    IF Len(s) = 0 THEN ""
    ELSE LET n == RunLen(1, s, 1)
         IN IF n > 0 THEN "N" \o ReplaceDigitRuns(SubSeq(s, n + 1, Len(s)))
            ELSE CharAt(s, 1) \o ReplaceDigitRuns(SubSeq(s, 2, Len(s)))

RECURSIVE ReplacePaths(_)
\* regexp `/[^\s]+` replaced by "/PATH"
ReplacePaths(s) ==
    IF Len(s) = 0 THEN ""
    ELSE LET n == IF CharAt(s, 1) = "/" THEN RunLen(2, s, 2) ELSE 0
         IN IF n > 0 THEN "/PATH" \o ReplacePaths(SubSeq(s, n + 2, Len(s)))
            ELSE CharAt(s, 1) \o ReplacePaths(SubSeq(s, 2, Len(s)))

\* positions of the dashes and lengths of a canonical UUID
UUIDLen == 36
IsUUIDAt(s, i) ==
    /\ i + UUIDLen - 1 <= Len(s)
    /\ \A k \in 0..(UUIDLen - 1) :
          IF k \in {8, 13, 18, 23} THEN CharAt(s, i + k) = "-"
          ELSE IsLowerHex(CharAt(s, i + k))

RECURSIVE ReplaceUUIDs(_)
\* regexp `[0-9a-f]{8}-[0-9a-f]{4}-[0-9a-f]{4}-[0-9a-f]{4}-[0-9a-f]{12}`
\* replaced by "UUID"
ReplaceUUIDs(s) ==
    IF Len(s) = 0 THEN ""
    ELSE IF IsUUIDAt(s, 1)
    THEN "UUID" \o ReplaceUUIDs(SubSeq(s, UUIDLen + 1, Len(s)))
    ELSE CharAt(s, 1) \o ReplaceUUIDs(SubSeq(s, 2, Len(s)))

RECURSIVE ReplaceEachDigit(_)
\* regexp `\d` replaced by "N"
ReplaceEachDigit(s) ==
    IF Len(s) = 0 THEN ""
    ELSE (IF IsDigit(CharAt(s, 1)) THEN "N" ELSE CharAt(s, 1))
         \o ReplaceEachDigit(SubSeq(s, 2, Len(s)))

\* variant: the digit pattern is `\d` instead of `\d+`
CleanMessageEachDigit(errorMsg) ==
    ReplaceUUIDs(ReplacePaths(ReplaceEachDigit(errorMsg)))

\* the "cleaned" message of GenerateErrorSignature
CleanMessage(errorMsg) == ReplaceUUIDs(ReplacePaths(ReplaceDigitRuns(errorMsg)))

\* variant: the signature string is the cleaned message without the kind
GenerateErrorSignatureNoKind(errorMsg, errorType) ==
    LET cleaned   == CleanMessage(errorMsg)
        signature == cleaned
    IN HexEncodeToString(MD5Sum(StrBytes(signature)))

GenerateErrorSignature(errorMsg, errorType) ==
    LET cleaned   == CleanMessage(errorMsg)
        signature == errorType \o ":" \o cleaned
    IN HexEncodeToString(MD5Sum(StrBytes(signature)))

-----------------------------------------------------------------------------
(* Root cause, severity, template suggestions.                             *)

\* characters strings.TrimSpace removes (ASCII part)
IsTrimSpace(c) == c \in {" ", "\t", "\n", "\f", "\r"}

\* strings.Split(errorMsg, "\n")[0]
FirstLine(s) ==
    IF \E i \in 1..Len(s) : CharAt(s, i) = "\n"
    THEN LET i == CHOOSE k \in 1..Len(s) :
                     /\ CharAt(s, k) = "\n"
                     /\ \A j \in 1..(k - 1) : CharAt(s, j) # "\n"
         IN SubSeq(s, 1, i - 1)
    ELSE s

TrimSpace(s) ==
    LET keep == {i \in 1..Len(s) : ~IsTrimSpace(CharAt(s, i))}
    IN IF keep = {} THEN ""
       ELSE SubSeq(s, CHOOSE i \in keep : \A j \in keep : i <= j,
                      CHOOSE i \in keep : \A j \in keep : i >= j)

RootCauseLimit == 150

extractRootCause(errorMsg) ==
    LET rootCause == TrimSpace(FirstLine(errorMsg))
    IN IF Len(rootCause) > RootCauseLimit
       THEN SubSeq(rootCause, 1, RootCauseLimit) \o "..."
       ELSE rootCause

CriticalCount == 3
HighAssertionCount == 2

calculateSeverity(errorType, count) ==
    IF count >= CriticalCount THEN "critical"
    ELSE IF errorType = ErrorTypeAssertion
         THEN (IF count >= HighAssertionCount THEN "high" ELSE "medium")
    ELSE IF errorType \in {ErrorTypeTimeout, ErrorTypeNetwork} THEN "high"
    ELSE IF errorType = ErrorTypeDatabase THEN "critical"
    ELSE IF errorType = ErrorTypeNullPointer THEN "high"
    ELSE "medium"

getPatternBasedSuggestion(errorType) ==
    IF errorType = ErrorTypeAssertion THEN
        "Review test expectations and verify they match actual behavior. Check if application logic changed or test data is outdated."
    ELSE IF errorType = ErrorTypeTimeout THEN
        "Increase timeout values or investigate performance degradation. Check for slow external dependencies or resource constraints."
    ELSE IF errorType = ErrorTypeNetwork THEN
        "Verify network connectivity, check service availability, and ensure proper error handling for network failures."
    ELSE IF errorType = ErrorTypeNullPointer THEN
        "Add null checks before accessing objects. Verify object initialization and data flow in the application."
    ELSE IF errorType = ErrorTypeFileSystem THEN
        "Verify file paths, check file permissions, and ensure required files exist before test execution."
    ELSE IF errorType = ErrorTypeDatabase THEN
        "Check database connection, verify schema integrity, and ensure test data is properly set up."
    ELSE IF errorType = ErrorTypeEnvironment THEN
        "Review environment configuration, check required properties are set, and verify environment setup scripts."
    ELSE
        "Review error logs and stack trace for more details. Consider adding more specific error handling."

-----------------------------------------------------------------------------
(* net/url.Parse, as http.NewRequest calls it, and the tests of the        *)
(* transport on the parsed URL (Go 1.21).  Positions count from 1; an       *)
(* index of 0 says "not found".                                            *)

\* the least member of a set of positions, or 0
FirstOf(positions) ==
    IF positions = {} THEN 0
    ELSE CHOOSE i \in positions : \A j \in positions : i <= j
LastOf(positions) ==
    IF positions = {} THEN 0
    ELSE CHOOSE i \in positions : \A j \in positions : i >= j

\* strings.IndexByte and strings.LastIndexByte
IndexByte(s, c)     == FirstOf({i \in 1..Len(s) : CharAt(s, i) = c})
LastIndexByte(s, c) == LastOf({i \in 1..Len(s) : CharAt(s, i) = c})

HasPrefix(s, prefix) ==
    Len(s) >= Len(prefix) /\ SubSeq(s, 1, Len(prefix)) = prefix

\* the part of s before position i (all of s for 0), and the part after
BeforeIndex(s, i) == IF i = 0 THEN s ELSE SubSeq(s, 1, i - 1)
AfterIndex(s, i)  == IF i = 0 THEN "" ELSE SubSeq(s, i + 1, Len(s))

\* the part of s before the first c (all of s without c), and the part after
BeforeByte(s, c) == BeforeIndex(s, IndexByte(s, c))
AfterByte(s, c)  == AfterIndex(s, IndexByte(s, c))

Letters ==
    {CharAt(UpperLetters, i) : i \in 1..26} \cup {CharAt(LowerLetters, i) : i \in 1..26}
IsLetter(c) == c \in Letters

\* ishex and unhex
IsHex(c) == c \in {"0", "1", "2", "3", "4", "5", "6", "7", "8", "9",
                   "a", "b", "c", "d", "e", "f", "A", "B", "C", "D", "E", "F"}
HexValue(code) ==
    IF code < 58 THEN code - 48
    ELSE IF code >= 97 THEN code - 97 + 10
    ELSE code - 65 + 10
UnHex(c) == HexValue(CodeOf(c))

\* stringContainsCTLByte: a byte below 0x20, or 0x7f
IsCTLByte(code) == code < 32 \/ code = 127
stringContainsCTLByte(s) ==
    \E i \in 1..Len(s) : IsCTLByte(CodeOf(CharAt(s, i)))

\* getScheme: the URL starts with letters, then letters, digits, "+", "-"
\* and ".", then ":"; a ":" in the first place is an error, anything else
\* means "no scheme"
IsSchemeByte(c, i) ==
    IsLetter(c) \/ (i > 1 /\ c \in {"0", "1", "2", "3", "4", "5", "6", "7", "8",
                                    "9", "+", "-", "."})
SchemeUpTo(rawURL, stop) ==
    IF stop = 0 \/ CharAt(rawURL, stop) # ":"
    THEN [scheme |-> "", path |-> rawURL, err |-> FALSE]
    ELSE IF stop = 1
    THEN [scheme |-> "", path |-> "", err |-> TRUE]
    ELSE [scheme |-> SubSeq(rawURL, 1, stop - 1),
          path |-> SubSeq(rawURL, stop + 1, Len(rawURL)), err |-> FALSE]
getScheme(rawURL) ==
    SchemeUpTo(rawURL,
               FirstOf({i \in 1..Len(rawURL) : ~IsSchemeByte(CharAt(rawURL, i), i)}))

\* shouldEscape(c, encodeHost) on the byte value c
shouldEscapeHost(c) ==
    c \notin (48..57) \cup (65..90) \cup (97..122)
             \cup {33, 36, 38, 39, 40, 41, 42, 43, 44, 59, 61, 58, 91, 93, 60, 62, 34}
             \cup {45, 95, 46, 126}

\* the modes of unescape that Parse uses
EncodePath == "encodePath"
EncodeHost == "encodeHost"
EncodeZone == "encodeZone"
EncodeUserPassword == "encodeUserPassword"
EncodeFragment == "encodeFragment"

\* does unescape(s, mode) return an error?  A "%" needs two hex digits
\* after it; in a host it may only escape a byte of 0x80 and more, or be
\* "%25"; in a zone it may not escape a byte that a host cannot hold,
\* except the space; a host or zone holds no byte that must be escaped.
EscapedByteFails(hi, lo, mode) ==
    /\ mode \in {EncodeHost, EncodeZone}
    /\ <<hi, lo>> # <<2, 5>>
    /\ IF mode = EncodeHost THEN hi < 8
       ELSE 16 * hi + lo # 32 /\ shouldEscapeHost(16 * hi + lo)
EscapeFails(h1, h2, mode) ==
    ~IsHex(h1) \/ ~IsHex(h2) \/ EscapedByteFails(UnHex(h1), UnHex(h2), mode)
ByteFails(s, i, c, mode) ==
    IF c = "%"
    THEN i + 2 > Len(s) \/ EscapeFails(CharAt(s, i + 1), CharAt(s, i + 2), mode)
    ELSE mode \in {EncodeHost, EncodeZone} /\ shouldEscapeHost(CodeOf(c))
unescapeFails(s, mode) ==
    \E i \in 1..Len(s) : ByteFails(s, i, CharAt(s, i), mode)

\* validOptionalPort: empty, or ":" and digits
validOptionalPort(port) ==
    \/ port = ""
    \/ /\ CharAt(port, 1) = ":"
       /\ \A i \in 2..Len(port) : IsDigit(CharAt(port, i))

\* does parseHost(host) return an error?  i is the place of the last "]",
\* zone that of the first "%25" before it, colon that of the last ":"
ZoneHostFails(host, i, zone) ==
    \E part \in IF zone = 0 THEN {<<host, EncodeHost>>}
                ELSE {<<SubSeq(host, 1, zone - 1), EncodeHost>>,
                      <<SubSeq(host, zone, i - 1), EncodeZone>>,
                      <<SubSeq(host, i, Len(host)), EncodeHost>>} :
        unescapeFails(part[1], part[2])
BracketHostFails(host, i) ==
    \/ i = 0
    \/ ~validOptionalPort(SubSeq(host, i + 1, Len(host)))
    \/ ZoneHostFails(host, i,
                     FirstOf({z \in 1..(i - 3) : SubSeq(host, z, z + 2) = "%25"}))
PlainHostFails(host, colon) ==
    \/ colon # 0 /\ ~validOptionalPort(SubSeq(host, colon, Len(host)))
    \/ unescapeFails(host, EncodeHost)
parseHostFails(host) ==
    IF HasPrefix(host, "[")
    THEN BracketHostFails(host, LastIndexByte(host, "]"))
    ELSE PlainHostFails(host, LastIndexByte(host, ":"))

validUserinfo(s) ==
    \A i \in 1..Len(s) :
        \/ IsLetter(CharAt(s, i))
        \/ CharAt(s, i) \in {"0", "1", "2", "3", "4", "5", "6", "7", "8", "9",
                             "-", ".", "_", ":", "~", "!", "$", "&", "'", "(",
                             ")", "*", "+", ",", ";", "=", "%", "@"}

\* parseAuthority: the host after the last "@", the user information
\* before it with the name before its first ":" and the password after
UserinfoFails(userinfo, colon) ==
    \/ ~validUserinfo(userinfo)
    \/ \E part \in {BeforeIndex(userinfo, colon), AfterIndex(userinfo, colon)} :
          unescapeFails(part, EncodeUserPassword)
AuthorityAt(authority, i, host) ==
    [host |-> host,
     err  |-> \/ parseHostFails(host)
              \/ i # 0 /\ UserinfoFails(SubSeq(authority, 1, i - 1),
                                        IndexByte(SubSeq(authority, 1, i - 1), ":"))]
AuthoritySplit(authority, i) ==
    AuthorityAt(authority, i, SubSeq(authority, i + 1, Len(authority)))
parseAuthority(authority) ==
    AuthoritySplit(authority, LastIndexByte(authority, "@"))

\* url.Parse: [err, scheme, host] of the raw URL.  The fragment is cut off
\* first; pathFails and fragFails tell whether the path and the fragment
\* fail to unescape.
ParseFailed == [err |-> TRUE, scheme |-> "", host |-> ""]

ParseAuthorityOf(scheme, a, pathFails, fragFails) ==
    IF a.err THEN ParseFailed
    ELSE [err |-> pathFails \/ fragFails, scheme |-> scheme, host |-> a.host]

ParseHierarchy(scheme, afterSlashes, slash, fragFails) ==
    ParseAuthorityOf(scheme, parseAuthority(BeforeIndex(afterSlashes, slash)),
                     slash # 0 /\ unescapeFails(SubSeq(afterSlashes, slash,
                                                       Len(afterSlashes)),
                                                EncodePath),
                     fragFails)

ParseRest(scheme, rest, rooted, fragFails) ==
    IF ~rooted /\ scheme # ""
    THEN [err |-> fragFails, scheme |-> scheme, host |-> ""]
    ELSE IF ~rooted /\ IndexByte(BeforeByte(rest, "/"), ":") # 0
    THEN ParseFailed
    ELSE IF (scheme # "" \/ ~HasPrefix(rest, "///")) /\ HasPrefix(rest, "//")
    THEN ParseHierarchy(scheme, SubSeq(rest, 3, Len(rest)),
                        IndexByte(SubSeq(rest, 3, Len(rest)), "/"), fragFails)
    ELSE [err |-> unescapeFails(rest, EncodePath) \/ fragFails,
          scheme |-> scheme, host |-> ""]

ParseScheme(s, rest, fragFails) ==
    IF s.err THEN ParseFailed
    ELSE ParseRest(ToLower(s.scheme), rest, HasPrefix(rest, "/"), fragFails)

ParseNoFragment(u, s, fragFails) ==
    IF stringContainsCTLByte(u) THEN ParseFailed
    ELSE IF u = "*" THEN [err |-> fragFails, scheme |-> "", host |-> ""]
    ELSE ParseScheme(s, BeforeByte(s.path, "?"), fragFails)

ParseFragment(u, frag) ==
    ParseNoFragment(u, getScheme(u), unescapeFails(frag, EncodeFragment))

ParseURL(rawURL) ==
    ParseFragment(BeforeByte(rawURL, "#"), AfterByte(rawURL, "#"))

\* removeEmptyPort: "host:" is "host"
removeEmptyPort(host) ==
    IF /\ Len(host) > 0
       /\ CharAt(host, Len(host)) = ":"
       /\ LastIndexByte(host, ":") > LastIndexByte(host, "]")
    THEN SubSeq(host, 1, Len(host) - 1)
    ELSE host

\* URLs of the inputs: two that http.NewRequest rejects (a tab; a space
\* in the host name) and one that it accepts and the transport refuses
\* ("localhost" is read as the scheme)
BadURL      == "http://llm\thost/api"
SpaceURL    == "http://llm host/api"
NoSchemeURL == "localhost:11434/api/generate"

\* The URLs the provider calls of the inputs request, parsed once (one
\* parse costs TLC tens of milliseconds): the defaults, the URLs above,
\* and what callGemini builds of them.
BaseURLs ==
    {"https://api.openai.com/v1/chat/completions",
     "https://api.anthropic.com/v1/messages",
     "https://generativelanguage.googleapis.com/v1beta",
     "http://localhost:11434/api/generate",
     "", BadURL, SpaceURL, NoSchemeURL}
RequestURLs ==
    BaseURLs \cup
    {b \o "/models/" \o m \o ":generateContent?key=" \o k :
        b \in BaseURLs, m \in {"", "gemini-2.0-flash", "llama2"},
        k \in {"", "sk-test-key"}}
ParsedURLs == [u \in RequestURLs |-> ParseURL(u)]

\* http.NewRequest("POST", url, body) returns an error exactly when
\* url.Parse does
ParsedURL(url) ==
    IF url \in RequestURLs THEN ParsedURLs[url] ELSE ParseURL(url)
NewRequestFails(url) == ParsedURL(url).err

\* Transport.roundTrip refuses a request before any network exchange when
\* the scheme is not http or https, or the URL names no host
TransportRefuses(u) ==
    u.scheme \notin {"http", "https"} \/ removeEmptyPort(u.host) = ""
RoundTripRefuses(url) == TransportRefuses(ParsedURL(url))

-----------------------------------------------------------------------------
(* The LLM layer.  A Go pointer is a tuple: <<>> is nil, <<v>> points to   *)
(* v.  An error value is the same: <<>> is the nil error.                  *)

Nil      == <<>>
Ptr(v)   == <<v>>
Deref(q) == q[1]

ProviderNone   == "none"
ProviderOpenAI == "openai"
ProviderClaude == "claude"
ProviderGemini == "gemini"
ProviderLocal  == "local"

LLMTimeoutSeconds == 30

\* os.Getenv on the environment e (a record of the GAUGE_AI_* variables)
getEnvOrDefault(value, defaultValue) ==
    IF value # "" THEN value ELSE defaultValue

LoadLLMConfigFromEnv(e) ==
    LET enabled  == e.GAUGE_AI_ENABLED = "true"
        provider == IF e.GAUGE_AI_PROVIDER = "" THEN ProviderNone
                    ELSE e.GAUGE_AI_PROVIDER
        url(d)   == getEnvOrDefault(e.GAUGE_AI_API_URL, d)
        model(d) == getEnvOrDefault(e.GAUGE_AI_MODEL, d)
        base     == [Enabled |-> TRUE, Provider |-> provider,
                     APIKey |-> e.GAUGE_AI_API_KEY, APIURL |-> "",
                     Model |-> "", Timeout |-> LLMTimeoutSeconds]
    IN IF ~enabled
       THEN Ptr([Enabled |-> FALSE, Provider |-> ProviderNone, APIKey |-> "",
                 APIURL |-> "", Model |-> "", Timeout |-> 0])
       ELSE IF provider = ProviderOpenAI
       THEN Ptr([base EXCEPT
                 !.APIURL = url("https://api.openai.com/v1/chat/completions"),
                 !.Model = model("gpt-4-turbo-preview")])
       ELSE IF provider = ProviderClaude
       THEN Ptr([base EXCEPT
                 !.APIURL = url("https://api.anthropic.com/v1/messages"),
                 !.Model = model("claude-3-sonnet-20240229")])
       ELSE IF provider = ProviderGemini
       THEN Ptr([base EXCEPT
                 !.APIURL = url("https://generativelanguage.googleapis.com/v1beta"),
                 !.Model = model("gemini-2.0-flash")])
       ELSE IF provider = ProviderLocal
       THEN Ptr([base EXCEPT
                 !.APIURL = url("http://localhost:11434/api/generate"),
                 !.Model = model("llama2")])
       ELSE Ptr(base)

\* variant: the test "config.Provider == ProviderNone" is missing
NewLLMClientAnyProvider(config) ==
    IF config = Nil \/ ~Deref(config).Enabled
    THEN Nil
    ELSE Ptr([config |-> Deref(config),
              client |-> [Timeout |-> Deref(config).Timeout]])

\* variant: a cloud provider without an API key gets no client
NewLLMClientNeedsKey(config) ==
    IF config = Nil \/ ~Deref(config).Enabled
       \/ Deref(config).Provider = ProviderNone
       \/ (Deref(config).Provider # ProviderLocal /\ Deref(config).APIKey = "")
    THEN Nil
    ELSE Ptr([config |-> Deref(config),
              client |-> [Timeout |-> Deref(config).Timeout]])

NewLLMClient(config) ==
    IF config = Nil \/ ~Deref(config).Enabled
       \/ Deref(config).Provider = ProviderNone
    THEN Nil
    ELSE Ptr([config |-> Deref(config),
              client |-> [Timeout |-> Deref(config).Timeout]])

NewAnalyzer(e) ==
    LET llmConfig == LoadLLMConfigFromEnv(e)
        llmClient == NewLLMClient(llmConfig)
    IN [llmClient |-> llmClient, useRealAI |-> llmClient # Nil]

StatusOK == 200

\* One HTTP exchange, as the provider call sees it.  The record x is what
\* the network does: x.transport (client.Do returns an error, a timeout
\* included), x.status, x.reads (the body is read to its end without an
\* error), x.decodes (the bytes that arrive hold the expected JSON value),
\* x.items (number of choices / content blocks / candidate parts),
\* x.text (the first item's text, or the "response" field).
LLMResult(text, err) == [text |-> text, err |-> err]

\* The part shared by the four provider calls, up to the decoded body.
\* readAll: the call reads the whole body with io.ReadAll before it
\* decodes it (callGemini); the other calls decode from the stream with
\* json.NewDecoder, which stops at the end of the JSON value and meets a
\* failing read only when the value has not arrived.
CallPrefix(url, x, readAll) ==
    IF NewRequestFails(url) THEN Ptr("failed to create request")
    ELSE IF x.transport \/ RoundTripRefuses(url) THEN Ptr("API request failed")
    ELSE IF x.status # StatusOK THEN Ptr("API returned status")
    ELSE IF readAll /\ ~x.reads THEN Ptr("failed to read response body")
    ELSE IF ~x.decodes THEN Ptr("failed to decode response")
    ELSE Nil

callOpenAI(c, x) ==
    LET e == CallPrefix(Deref(c).config.APIURL, x, FALSE)
    IN IF e # Nil THEN LLMResult("", e)
       ELSE IF x.items = 0 THEN LLMResult("", Ptr("no response from OpenAI"))
       ELSE LLMResult(x.text, Nil)

callClaude(c, x) ==
    LET e == CallPrefix(Deref(c).config.APIURL, x, FALSE)
    IN IF e # Nil THEN LLMResult("", e)
       ELSE IF x.items = 0 THEN LLMResult("", Ptr("no response from Claude"))
       ELSE LLMResult(x.text, Nil)

callGemini(c, x) ==
    LET apiURL == Deref(c).config.APIURL \o "/models/" \o Deref(c).config.Model
                     \o ":generateContent?key=" \o Deref(c).config.APIKey
        e == CallPrefix(apiURL, x, TRUE)
    IN IF e # Nil THEN LLMResult("", e)
       ELSE IF x.items = 0 THEN LLMResult("", Ptr("no response from Gemini"))
       ELSE LLMResult(x.text, Nil)

callLocal(c, x) ==
    LET e == CallPrefix(Deref(c).config.APIURL, x, FALSE)
    IN IF e # Nil THEN LLMResult("", e)
       ELSE IF x.text = ""
       THEN LLMResult("", Ptr("empty response from local LLM"))
       ELSE LLMResult(x.text, Nil)

\* LLMClient.GenerateFixSuggestion; the prompt text only travels to the
\* provider and does not come back into the program
LLMGenerateFixSuggestion(c, x) ==
    IF c = Nil THEN LLMResult("", Ptr("LLM client not initialized"))
    ELSE LET provider == Deref(c).config.Provider
         IN IF provider = ProviderOpenAI THEN callOpenAI(c, x)
            ELSE IF provider = ProviderClaude THEN callClaude(c, x)
            ELSE IF provider = ProviderGemini THEN callGemini(c, x)
            ELSE IF provider = ProviderLocal THEN callLocal(c, x)
            ELSE LLMResult("", Ptr("unsupported provider"))

\* does generateFixSuggestion call the LLM?
UsesLLM(a) == a.useRealAI /\ a.llmClient # Nil

\* variant: the test "suggestion != \"\"" is missing
generateFixSuggestionAnyText(a, errorType, x) ==
    LET r == LLMGenerateFixSuggestion(a.llmClient, x)
    IN IF UsesLLM(a) /\ r.err = Nil
       THEN r.text
       ELSE getPatternBasedSuggestion(errorType)

\* Analyzer.generateFixSuggestion; x is the exchange of its LLM call
generateFixSuggestion(a, errorType, x) ==
    LET r == LLMGenerateFixSuggestion(a.llmClient, x)
    IN IF UsesLLM(a) /\ r.err = Nil /\ r.text # ""
       THEN r.text
       ELSE getPatternBasedSuggestion(errorType)

-----------------------------------------------------------------------------
(* State.                                                                  *)

VARIABLES
    env,        \* the GAUGE_AI_* environment variables of the process
    analyzer,   \* the Analyzer built by NewAnalyzer
    suite,      \* the EnhancedSuiteResult handed to GroupFailures
    callsLeft,  \* GroupFailures calls the caller still makes on the suite
    pc,         \* "idle", or "scan" while GroupFailures loops over scenarios
    pos,        \* <<spec index, scenario index>> of the next scenario
    groups,     \* the map signature -> FailureGroup of the running call
    llmCalls,   \* signature -> result of the LLM call made for that group
    returned,   \* the lists returned by the completed GroupFailures calls
    fnArgs,     \* arguments of a direct call of a pure function
    fnOut,      \* its result
    plugin,     \* the Plugin, its goroutines and its Kill handlers
    render,     \* a renderSpecPages call and its goroutines
    sqlite,     \* the tables of .gauge-history/test-history.db
    others,     \* what other processes do to that file
    running     \* the locals of the running call on the database

vars == <<env, analyzer, suite, callsLeft, pc, pos, groups, llmCalls,
          returned, fnArgs, fnOut, plugin, render, sqlite, others, running>>

groupVars == <<env, analyzer, suite, callsLeft, pc, pos, groups, llmCalls,
               returned>>
fnVars    == <<fnArgs, fnOut>>
dbVars    == <<sqlite, others, running>>
procVars  == <<plugin, render, sqlite, others, running>>

NoValue == <<>>
EndPos  == <<0, 0>>

-----------------------------------------------------------------------------
(* Analyzer.GroupFailures.                                                 *)

RECURSIVE NextPos(_, _, _)
\* the scenario after scenario ci of spec si in the nested range loops
NextPos(specs, si, ci) ==
    IF si > Len(specs) THEN EndPos
    ELSE IF ci + 1 <= Len(specs[si].Scenarios) THEN <<si, ci + 1>>
    ELSE NextPos(specs, si + 1, 0)

RECURSIVE ScanSteps(_, _, _)
\* the loop "for _, step := range scenario.Steps" with its break, from step
\* i on; skipEmpty is FALSE in the program
ScanSteps(steps, i, skipEmpty) ==
    IF i > Len(steps)
    THEN [errorMsg |-> "", stackTrace |-> "", stepText |-> ""]
    ELSE IF steps[i].Failed /\ ~(skipEmpty /\ steps[i].ErrorMessage = "")
    THEN [errorMsg |-> steps[i].ErrorMessage,
          stackTrace |-> steps[i].StackTrace,
          stepText |-> steps[i].StepText]
    ELSE ScanSteps(steps, i + 1, skipEmpty)

\* variant: the loop breaks at the first failed step that has a message
FirstFailedStepWithMessage(steps) == ScanSteps(steps, 1, TRUE)

\* "Get first failed step": errorMsg, stackTrace, stepText stay "" when no
\* step failed
FirstFailedStep(steps) == ScanSteps(steps, 1, FALSE)

\* helper "contains"
contains(slice, item) == \E i \in 1..Len(slice) : slice[i] = item

\* variant: the "exists" branch forgets group.Count++
ExtendGroupNoCount(group, scenario, spec) ==
    [group EXCEPT
        !.AffectedScenarios = Append(@, scenario.ScenarioHeading),
        !.AffectedSpecs = IF contains(@, spec.SpecHeading) THEN @
                          ELSE Append(@, spec.SpecHeading)]

\* variant: the spec heading is appended without the "contains" test
ExtendGroupAppendSpec(group, scenario, spec) ==
    [group EXCEPT
        !.Count = @ + 1,
        !.AffectedScenarios = Append(@, scenario.ScenarioHeading),
        !.AffectedSpecs = Append(@, spec.SpecHeading)]

\* the "exists" branch
ExtendGroup(group, scenario, spec) ==
    [group EXCEPT
        !.Count = @ + 1,
        !.AffectedScenarios = Append(@, scenario.ScenarioHeading),
        !.AffectedSpecs = IF contains(@, spec.SpecHeading) THEN @
                          ELSE Append(@, spec.SpecHeading)]

\* the "else" branch; x is the exchange of the LLM call, if one is made
NewGroup(a, signature, errorType, first, scenario, spec, x) ==
    [Signature         |-> signature,
     ErrorType         |-> errorType,
     RootCause         |-> extractRootCause(first.errorMsg),
     Count             |-> 1,
     AffectedScenarios |-> <<scenario.ScenarioHeading>>,
     AffectedSpecs     |-> <<spec.SpecHeading>>,
     Severity          |-> calculateSeverity(errorType, 1),
     SuggestedFix      |-> generateFixSuggestion(a, errorType, x),
     ErrorMessage      |-> first.errorMsg,
     StackTrace        |-> first.stackTrace,
     StepText          |-> first.stepText,
     SpecName          |-> spec.SpecHeading]

\* variant: the final loop does not recompute the severity
FinalizeGroupKeepSeverity(group) == group

\* "update severity based on count" of the final loop
FinalizeGroup(group) ==
    [group EXCEPT !.Severity = calculateSeverity(group.ErrorType, group.Count)]

\* the orders in which ranging over a Go map can visit the keys
MapOrders(m) ==
    {o \in [1..Cardinality(DOMAIN m) -> DOMAIN m] :
        \A i, j \in DOMAIN o : i # j => o[i] # o[j]}

\* "Convert map to slice", visiting the keys in the order o
CollectGroups(m, o) == [i \in DOMAIN o |-> FinalizeGroup(m[o[i]])]

-----------------------------------------------------------------------------
(* Inputs: suites, environments, LLM exchanges.                            *)

MaxScenarios == 4    \* scenarios of a suite, all specs together

AssertMsg1 == "Expected 5 but got 1"
AssertMsg2 == "Expected 10 but got 2"
TimeoutMsg == "Connection timeout after 30 seconds"
QueryMsg   == "query failed on row 7"
PlainMsg   == "boom"

PyStack  == "at test.py:10"
SqlStack == "at db.sql.Driver.run(Driver.java:42)"

ErrorMessages == {AssertMsg1, AssertMsg2, TimeoutMsg, QueryMsg, PlainMsg}
StackTraces   == {PyStack, SqlStack}

\* headings by position: "Spec 1", "Scenario 2"
HeadingAt(word, i) == word \o " " \o ToString(i)

StepResult(failed, msg, stack) ==
    [StepText |-> "Verify count", Failed |-> failed,
     ErrorMessage |-> msg, StackTrace |-> stack]
PassedStep == StepResult(FALSE, "", "")

SeqsUpTo(S, n) == UNION {[1..k -> S] : k \in 0..n}

\* a scenario outcome before it gets its heading
Outcome(failed, steps) == [Failed |-> failed, Steps |-> steps]

\* one-step scenarios: passed, or failed at a step with message m (which
\* may be "") and stack trace t
OneStepOutcomes(msgs, stacks) ==
    {Outcome(FALSE, <<PassedStep>>)}
    \cup {Outcome(TRUE, <<StepResult(TRUE, m, t)>>) : m \in msgs, t \in stacks}

\* the suite whose spec i holds the outcomes shape[i], headings by position
MakeSuite(shape) ==
    [SpecResults |->
        [i \in DOMAIN shape |->
            [SpecHeading |-> HeadingAt("Spec", i),
             Scenarios |->
                [j \in DOMAIN shape[i] |->
                    [ScenarioHeading |-> HeadingAt("Scenario", j),
                     Failed |-> shape[i][j].Failed,
                     Steps |-> shape[i][j].Steps]]]]]

RECURSIVE Splits(_)
\* the ways to cut the sequence s into consecutive non-empty pieces
Splits(s) ==
    IF Len(s) = 0 THEN {<<>>}
    ELSE UNION {{<<SubSeq(s, 1, i)>> \o rest :
                    rest \in Splits(SubSeq(s, i + 1, Len(s)))} : i \in 1..Len(s)}

\* the suites of up to n scenarios in all, spread over any number of specs
Suites(outcomes, n) ==
    {MakeSuite(shape) : shape \in UNION {Splits(f) : f \in SeqsUpTo(outcomes, n)}}

\* the suites of one spec (or none) with up to n scenarios
SingleSpecSuites(outcomes, n) ==
    {MakeSuite(IF Len(f) = 0 THEN <<>> ELSE <<f>>) : f \in SeqsUpTo(outcomes, n)}

EnvOf(enabled, provider, key, url) ==
    [GAUGE_AI_ENABLED |-> enabled, GAUGE_AI_PROVIDER |-> provider,
     GAUGE_AI_API_KEY |-> key, GAUGE_AI_API_URL |-> url,
     GAUGE_AI_MODEL |-> ""]

\* no GAUGE_AI_* variable set
UnsetEnv == EnvOf("", "", "", "")

Exchange(transport, status, decodes, items, text) ==
    [transport |-> transport, status |-> status, reads |-> TRUE,
     decodes |-> decodes, items |-> items, text |-> text]

\* the same exchange with a body whose read fails
BrokenBody(x) == [x EXCEPT !.reads = FALSE]

LLMText == "Reset the counter in the setup step."

Exchanges ==
    {Exchange(TRUE, 0, FALSE, 0, ""),          \* unreachable or timed out
     Exchange(FALSE, 500, FALSE, 0, ""),       \* non-200 status
     Exchange(FALSE, 200, FALSE, 0, ""),       \* malformed body
     Exchange(FALSE, 200, TRUE, 0, ""),        \* no choice / content / part
     Exchange(FALSE, 200, TRUE, 1, ""),        \* empty text
     Exchange(FALSE, 200, TRUE, 1, LLMText),   \* a suggestion
     \* the read fails before the JSON value is complete
     BrokenBody(Exchange(FALSE, 200, FALSE, 0, "")),
     \* the read fails after the suggestion has arrived
     BrokenBody(Exchange(FALSE, 200, TRUE, 1, LLMText))}

\* stands for "no LLM call made"
NoExchange == Exchange(TRUE, 0, FALSE, 0, "")

MaxLLMScenarios == 2    \* scenarios of a suite in SpecLLM
MaxCalls        == 2    \* GroupFailures calls on one suite in SpecOrder
MaxSteps        == 3    \* steps of a suite in SpecSteps, all scenarios together
MaxWords        == 2    \* words of a message in SpecClassify
MaxTokens       == 2    \* tokens of a message in SpecSignature


Envs ==
    {EnvOf(en, pr, "", url) :
        en \in {"", "true", "TRUE"},
        pr \in {"", "none", "openai", "claude", "gemini", "local", "azure"},
        url \in {"", BadURL, SpaceURL, NoSchemeURL}}

\* steps of the scenarios of SpecSteps
StepPool ==
    {PassedStep, StepResult(TRUE, "", ""),
     StepResult(TRUE, PlainMsg, PyStack), StepResult(TRUE, PlainMsg, SqlStack)}

\* the suites of one spec whose scenarios hold up to n steps in all, each
\* scenario marked failed or not whatever its steps say
StepSuites(n) ==
    UNION {{MakeSuite(<<[j \in DOMAIN chunks |-> Outcome(flags[j], chunks[j])]>>) :
               flags \in [DOMAIN chunks -> BOOLEAN]} :
           chunks \in UNION {Splits(f) : f \in SeqsUpTo(StepPool, n)}}

RECURSIVE JoinWith(_, _)
JoinWith(sep, words) ==
    IF Len(words) = 0 THEN ""
    ELSE IF Len(words) = 1 THEN words[1]
    ELSE words[1] \o sep \o JoinWith(sep, Tail(words))

ClassifyWords ==
    {"Expected", "TIMEOUT", "Timed Out", "socket closed", "NIL", "Path",
     "sql", "Config", "boom", "should", "be"}
ClassifyMessages ==
    {JoinWith(" ", w) :
        w \in UNION {[1..k -> ClassifyWords] : k \in 1..MaxWords}}
ClassifyStacks == {"", "at Assert.fail(Assert.java:88)", "at run(main.go:7)"}

SignatureTokens == {"x", "5", "10"}
TokenMessages ==
    {JoinWith("", w) :
        w \in UNION {[1..k -> SignatureTokens] : k \in 1..MaxTokens}}

UUIDDigits1  == "550e8400-e29b-41d4-a716-446655440000"
UUIDDigits2  == "f47ac10b-58cc-4372-a567-0e02b2c3d479"
UUIDLetters1 == "abcdefab-cdef-abcd-efab-cdefabcdefab"
UUIDLetters2 == "deadbeef-dead-beef-dead-beefdeadbeef"
UUIDs == {UUIDDigits1, UUIDDigits2, UUIDLetters1, UUIDLetters2}
UUIDPrefix == "session "
UUIDSuffix == " expired"
UUIDMessages == {UUIDPrefix \o u \o UUIDSuffix : u \in UUIDs}

SignatureCall(m1, k1, m2, k2) ==
    [msg1 |-> m1, kind1 |-> k1, msg2 |-> m2, kind2 |-> k2]

SignatureInputs ==
    {SignatureCall(m1, ErrorTypeAssertion, m2, ErrorTypeAssertion) :
        m1 \in TokenMessages, m2 \in TokenMessages}
    \cup {SignatureCall(m1, ErrorTypeUnknown, m2, ErrorTypeUnknown) :
        m1 \in UUIDMessages, m2 \in UUIDMessages}
    \cup {SignatureCall(m1, ErrorTypeAssertion, m2, ErrorTypeAssertion) :
        m1 \in {AssertMsg1, AssertMsg2}, m2 \in {AssertMsg1, AssertMsg2}}
    \cup {SignatureCall(m, ErrorTypeAssertion, m, ErrorTypeTimeout) :
        m \in TokenMessages \cup UUIDMessages}

-----------------------------------------------------------------------------
(* The kinds, cleaned messages and signatures of the messages and stack    *)
(* traces of the input pools, computed once with ClassifyError,            *)
(* CleanMessage and GenerateErrorSignature and looked up by the            *)
(* GroupFailures steps (one hash costs TLC tens of milliseconds).          *)

ClassTable ==
    [pr \in ErrorMessages \X StackTraces |-> ClassifyError(pr[1], pr[2])] @@ <<>>

\* a.ClassifyError(errorMsg, stackTrace)
ClassOf(errorMsg, stackTrace) == ClassTable[<<errorMsg, stackTrace>>]

SignaturePairs ==
    {<<m, ClassTable[<<m, t>>]>> : m \in ErrorMessages, t \in StackTraces}

SignatureTable ==
    [pr \in SignaturePairs |-> GenerateErrorSignature(pr[1], pr[2])] @@ <<>>

\* a.GenerateErrorSignature(errorMsg, string(errorType))
SignatureOf(errorMsg, errorType) == SignatureTable[<<errorMsg, errorType>>]

CleanTable == [m \in ErrorMessages |-> CleanMessage(m)] @@ <<>>

CleanOf(errorMsg) == CleanTable[errorMsg]

-----------------------------------------------------------------------------
(* Actions.                                                                *)

\* a caller invokes GroupFailures(suite): "groups := make(map...)"
GroupFailuresCall ==
    /\ pc = "idle"
    /\ callsLeft > 0
    /\ callsLeft' = callsLeft - 1
    /\ groups' = <<>>
    /\ llmCalls' = <<>>
    /\ pos' = NextPos(suite.SpecResults, 1, 0)
    /\ pc' = "scan"
    /\ UNCHANGED <<env, analyzer, suite, returned, fnArgs, fnOut, procVars>>

\* one iteration of the scenario loop
ScanScenario ==
    /\ pc = "scan"
    /\ pos # EndPos
    /\ LET spec     == suite.SpecResults[pos[1]]
           scenario == spec.Scenarios[pos[2]]
           first    == FirstFailedStep(scenario.Steps)
       IN IF ~scenario.Failed \/ first.errorMsg = ""
          THEN UNCHANGED <<groups, llmCalls>>
          ELSE \E errorType \in {ClassOf(first.errorMsg, first.stackTrace)} :
               \E signature \in {SignatureOf(first.errorMsg, errorType)} :
                  IF signature \in DOMAIN groups
                  THEN /\ groups' = [groups EXCEPT ![signature] =
                                        ExtendGroup(@, scenario, spec)]
                       /\ UNCHANGED llmCalls
                  ELSE \E x \in (IF UsesLLM(analyzer) THEN Exchanges
                                 ELSE {NoExchange}) :
                       /\ groups' = groups @@ (signature :>
                              NewGroup(analyzer, signature, errorType, first,
                                       scenario, spec, x))
                       /\ llmCalls' = llmCalls @@ (signature :>
                              IF UsesLLM(analyzer)
                              THEN Ptr([x |-> x, result |->
                                     LLMGenerateFixSuggestion(analyzer.llmClient, x)])
                              ELSE Nil)
    /\ pos' = NextPos(suite.SpecResults, pos[1], pos[2])
    /\ UNCHANGED <<env, analyzer, suite, callsLeft, pc, returned, fnArgs, fnOut,
                   procVars>>

\* the final loop over the map and the return
GroupFailuresReturn ==
    /\ pc = "scan"
    /\ pos = EndPos
    /\ \E o \in MapOrders(groups) :
          returned' = Append(returned, CollectGroups(groups, o))
    /\ pc' = "idle"
    /\ UNCHANGED <<env, analyzer, suite, callsLeft, pos, groups, llmCalls,
                   fnArgs, fnOut, procVars>>

InitCommon ==
    /\ analyzer = NewAnalyzer(env)
    /\ pc = "idle"
    /\ pos = EndPos
    /\ groups = <<>>
    /\ llmCalls = <<>>
    /\ returned = <<>>
    /\ fnArgs = NoValue
    /\ fnOut = NoValue
    /\ plugin = NoValue
    /\ render = NoValue
    /\ sqlite = NoValue
    /\ others = NoValue
    /\ running = NoValue

\* grouping: suites of one-step scenarios, LLM layer not configured
Init ==
    /\ env = UnsetEnv
    /\ suite \in Suites(OneStepOutcomes({"", AssertMsg1, AssertMsg2, QueryMsg},
                                        {PyStack}),
                        MaxScenarios)
    /\ callsLeft = 1
    /\ InitCommon

Next == GroupFailuresCall \/ ScanScenario \/ GroupFailuresReturn

Spec == Init /\ [][Next]_vars

\* the LLM layer: every environment, small suites
InitLLM ==
    /\ env \in Envs
    /\ suite \in SingleSpecSuites(
                    OneStepOutcomes({AssertMsg1, TimeoutMsg}, {PyStack}),
                    MaxLLMScenarios)
    /\ callsLeft = 1
    /\ InitCommon

SpecLLM == InitLLM /\ [][Next]_vars

\* repeated calls on one suite
InitOrder ==
    /\ env = UnsetEnv
    /\ suite \in SingleSpecSuites(
                    {Outcome(TRUE, <<StepResult(TRUE, m, PyStack)>>) :
                        m \in {AssertMsg1, TimeoutMsg, QueryMsg}},
                    MaxScenarios)
    /\ callsLeft = MaxCalls
    /\ InitCommon

SpecOrder == InitOrder /\ [][Next]_vars

\* scenarios of several steps; Failed is the flag the caller passes in
InitSteps ==
    /\ env = UnsetEnv
    /\ suite \in StepSuites(MaxSteps)
    /\ callsLeft = 1
    /\ InitCommon

SpecSteps == InitSteps /\ [][Next]_vars

-----------------------------------------------------------------------------
(* Direct calls of ClassifyError and GenerateErrorSignature.               *)

ClassifyErrorCall ==
    /\ "errorMsg" \in DOMAIN fnArgs
    /\ fnOut = NoValue
    /\ fnOut' = Ptr(ClassifyError(fnArgs.errorMsg, fnArgs.stackTrace))
    /\ UNCHANGED <<groupVars, fnArgs, procVars>>

InitClassify ==
    /\ env = UnsetEnv
    /\ suite = MakeSuite(<<>>)
    /\ callsLeft = 0
    /\ analyzer = NewAnalyzer(env)
    /\ pc = "idle"
    /\ pos = EndPos
    /\ groups = <<>>
    /\ llmCalls = <<>>
    /\ returned = <<>>
    /\ fnArgs \in [errorMsg : ClassifyMessages, stackTrace : ClassifyStacks]
    /\ fnOut = NoValue
    /\ plugin = NoValue
    /\ render = NoValue
    /\ sqlite = NoValue
    /\ others = NoValue
    /\ running = NoValue

SpecClassify == InitClassify /\ [][ClassifyErrorCall]_vars

\* two calls a.GenerateErrorSignature(msg1, kind1), (msg2, kind2)
GenerateErrorSignatureCall ==
    /\ "msg1" \in DOMAIN fnArgs
    /\ fnOut = NoValue
    /\ fnOut' = Ptr([sig1 |-> GenerateErrorSignature(fnArgs.msg1, fnArgs.kind1),
                     sig2 |-> GenerateErrorSignature(fnArgs.msg2, fnArgs.kind2)])
    /\ UNCHANGED <<groupVars, fnArgs, procVars>>

InitSignature ==
    /\ env = UnsetEnv
    /\ suite = MakeSuite(<<>>)
    /\ callsLeft = 0
    /\ analyzer = NewAnalyzer(env)
    /\ pc = "idle"
    /\ pos = EndPos
    /\ groups = <<>>
    /\ llmCalls = <<>>
    /\ returned = <<>>
    /\ fnArgs \in SignatureInputs
    /\ fnOut = NoValue
    /\ plugin = NoValue
    /\ render = NoValue
    /\ sqlite = NoValue
    /\ others = NoValue
    /\ running = NoValue

SpecSignature == InitSignature /\ [][GenerateErrorSignatureCall]_vars

\* NewLLMClient(config) on a configuration built by hand, as the tests do,
\* then one GenerateFixSuggestion on what it returned
ClientConfigs ==
    {Nil} \cup
    {Ptr([Enabled |-> enabled, Provider |-> provider, APIKey |-> key,
          APIURL |-> "http://localhost:11434/api/generate",
          Model |-> "llama2", Timeout |-> LLMTimeoutSeconds]) :
        enabled \in BOOLEAN,
        provider \in {"", ProviderNone, ProviderOpenAI, ProviderClaude,
                      ProviderGemini, ProviderLocal, "invalid-provider"},
        key \in {"", "sk-test-key"}}

NewLLMClientCall ==
    /\ "config" \in DOMAIN fnArgs
    /\ fnOut = NoValue
    /\ fnOut' = Ptr([client |-> NewLLMClient(fnArgs.config)])
    /\ UNCHANGED <<groupVars, fnArgs, procVars>>

GenerateFixSuggestionCall ==
    /\ "config" \in DOMAIN fnArgs
    /\ fnOut # NoValue
    /\ "result" \notin DOMAIN Deref(fnOut)
    /\ \E x \in Exchanges :
          fnOut' = Ptr([client |-> Deref(fnOut).client, x |-> x,
                        result |-> LLMGenerateFixSuggestion(Deref(fnOut).client, x)])
    /\ UNCHANGED <<groupVars, fnArgs, procVars>>

InitClient ==
    /\ env = UnsetEnv
    /\ suite = MakeSuite(<<>>)
    /\ callsLeft = 0
    /\ analyzer = NewAnalyzer(env)
    /\ pc = "idle"
    /\ pos = EndPos
    /\ groups = <<>>
    /\ llmCalls = <<>>
    /\ returned = <<>>
    /\ fnArgs \in [config : ClientConfigs]
    /\ fnOut = NoValue
    /\ plugin = NoValue
    /\ render = NoValue
    /\ sqlite = NoValue
    /\ others = NoValue
    /\ running = NoValue

NextClient == NewLLMClientCall \/ GenerateFixSuggestionCall

SpecClient == InitClient /\ [][NextClient]_vars

-----------------------------------------------------------------------------
(* float64 arithmetic on the non-negative values the analytics compute.    *)
(* A value is written in binary fixed point, FixInt bits before the point  *)
(* and FixFrac after it, most significant first; a float64 is such a       *)
(* sequence with at most MantissaBits significant bits.  Every operation   *)
(* computes the exact result and rounds it to nearest, ties to even.       *)

FixInt       == 8
FixFrac      == 70
FixLen       == FixInt + FixFrac
MantissaBits == 53

\* index of the first 1 bit, FixLen + 1 when there is none
RECURSIVE LeadingOne(_, _)
LeadingOne(bits, i) ==
    IF i > FixLen THEN i
    ELSE IF bits[i] = 1 THEN i
    ELSE LeadingOne(bits, i + 1)

\* bits + 2^(FixInt - i), by carrying from position i upwards
RECURSIVE AddOneAt(_, _)
AddOneAt(bits, i) ==
    IF i = 0 THEN bits
    ELSE IF bits[i] = 0 THEN [bits EXCEPT ![i] = 1]
    ELSE AddOneAt([bits EXCEPT ![i] = 0], i - 1)

\* the float64 nearest to bits + (a remainder below the last bit when
\* sticky), ties to even
RoundToFloat64(bits, sticky) ==
    LET first == LeadingOne(bits, 1)
        last  == first + MantissaBits - 1
        kept  == SubSeq([i \in 1..FixLen |-> IF i <= last THEN bits[i] ELSE 0],
                        1, FixLen)
        rest  == sticky \/ \E i \in (last + 2)..FixLen : bits[i] = 1
    IN IF last >= FixLen THEN bits
       ELSE IF bits[last + 1] = 1 /\ (rest \/ bits[last] = 1)
       THEN AddOneAt(kept, last)
       ELSE kept

\* the bits of n / d (0 <= n, 0 < d, n / d < 2^FixInt) by long division;
\* rem is the remainder left after the bit at position i - 1
RECURSIVE DivideBits(_, _, _, _)
DivideBits(rem, d, i, acc) ==
    IF i > FixLen \/ Len(acc) # i - 1 \/ rem >= d
    THEN [bits |-> acc, sticky |-> rem # 0]
    ELSE DivideBits((2 * rem) % d, d, i + 1,
                    Append(acc, IF 2 * rem >= d THEN 1 ELSE 0))

\* the bits of the integer n < 2^FixInt
IntBits(n) ==
    SubSeq([i \in 1..FixInt |-> (n \div 2^(FixInt - i)) % 2], 1, FixInt)

\* float64(n) / float64(d) for small integers
Float64Div(n, d) ==
    LET q == DivideBits(n % d, d, FixInt + 1, IntBits(n \div d))
    IN RoundToFloat64(q.bits, q.sticky)

\* a float literal n / d, as the compiler rounds it
Float64Of(n, d) == Float64Div(n, d)

FixLess(a, b) ==
    \E i \in 1..FixLen :
        /\ a[i] < b[i]
        /\ \A j \in 1..(i - 1) : a[j] = b[j]

\* a - b exactly, for a >= b: borrow(i) is the borrow into position i
RECURSIVE SubFrom(_, _, _, _, _)
SubFrom(a, b, i, borrow, acc) ==
    IF i = 0 \/ Len(acc) # FixLen - i \/ borrow > 1 THEN acc
    ELSE LET v == a[i] - b[i] - borrow
         IN SubFrom(a, b, i - 1, IF v < 0 THEN 1 ELSE 0,
                    <<IF v < 0 THEN v + 2 ELSE v>> \o acc)

RECURSIVE AddFrom(_, _, _, _, _)
AddFrom(a, b, i, carry, acc) ==
    IF i = 0 \/ Len(acc) # FixLen - i \/ carry > 1 THEN acc
    ELSE LET v == a[i] + b[i] + carry
         IN AddFrom(a, b, i - 1, v \div 2, <<v % 2>> \o acc)

FixSub(a, b) == SubFrom(a, b, FixLen, 0, <<>>)
FixAdd(a, b) == AddFrom(a, b, FixLen, 0, <<>>)

\* a * 2^k exactly (no bit is lost for the values used)
ShiftLeft(a, k) ==
    SubSeq([i \in 1..FixLen |-> IF i + k <= FixLen THEN a[i + k] ELSE 0],
           1, FixLen)

\* float64 operations
Float64Less(a, b) == FixLess(a, b)
Float64AbsDiff(a, b) ==
    IF FixLess(a, b) THEN RoundToFloat64(FixSub(b, a), FALSE)
    ELSE RoundToFloat64(FixSub(a, b), FALSE)
Float64Sub(a, b) == RoundToFloat64(FixSub(a, b), FALSE)
Float64Twice(a) == ShiftLeft(a, 1)
Float64Times100(a) ==
    RoundToFloat64(FixAdd(FixAdd(ShiftLeft(a, 6), ShiftLeft(a, 5)),
                          ShiftLeft(a, 2)), FALSE)

-----------------------------------------------------------------------------
(* storage.Database and the flaky-test detection of analytics.Engine.      *)

Float64Zero == Float64Of(0, 1)
Float64Half == Float64Of(1, 2)
Float64One  == Float64Of(1, 1)

\* The tables scenario_history and executions.  scenario_history, joined
\* with executions on execution_id, is a bag of rows; "days" is the age of
\* the row's execution, which the queries compare with their window.  Rows
\* of the boundary day itself are not modelled.  executions holds the
\* points GetTrendData selects, in ascending order of timestamp: the
\* column holds suite.Timestamp, the time.Now() of the run's conversion,
\* not the time of the INSERT.
HistoryRow(name, status, days) ==
    [scenario_name |-> name, status |-> status, days |-> days]

\* WHERE sh.scenario_name = ? AND e.timestamp >= datetime('now', '-? days')
SelectHistory(d, scenarioName, days) ==
    LET rows == d.scenario_history
    IN [r \in {r \in DOMAIN rows : r.scenario_name = scenarioName /\ r.days <= days}
           |-> rows[r]]

\* SUM(CASE WHEN status = 'failed' THEN 1 ELSE 0 END) over non-empty rows
FailedIn(rows) ==
    BagCardinality([r \in {r \in DOMAIN rows : r.status = "failed"} |-> rows[r]])

GetScenarioHistory(d, scenarioName, days) ==
    SelectHistory(d, scenarioName, days)

MinRuns == 3

\* the arithmetic of CalculateFlakyScore
FlakyScore(failedRuns, totalRuns) ==
    LET failureRate == Float64Div(failedRuns, totalRuns)
    IN Float64Sub(Float64One, Float64Twice(Float64AbsDiff(failureRate, Float64Half)))

\* d.broken: the query fails (the file is locked, the table is missing).
\* Over no row at all COUNT(*) is 0 and SUM(...) is NULL, which Scan cannot
\* store in an int: the call returns that error.
CalculateFlakyScore(d, scenarioName, days) ==
    LET rows      == SelectHistory(d, scenarioName, days)
        totalRuns == BagCardinality(rows)
    IN IF d.broken
       THEN [score |-> Float64Zero, err |-> Ptr("query failed")]
       ELSE IF totalRuns = 0
       THEN [score |-> Float64Zero,
             err |-> Ptr("converting NULL to int is unsupported")]
       ELSE IF totalRuns < MinRuns
       THEN [score |-> Float64Zero, err |-> Nil]
       ELSE [score |-> FlakyScore(FailedIn(rows), totalRuns), err |-> Nil]

NewEngine(db) == [db |-> db]

WindowDays     == 30
FlakyThreshold == Float64Of(3, 10)

\* the body of "if score > flakyThreshold"; LastSeen (time.Now) is left out.
\* d is the database as this second query finds it; "history, _ :=" drops
\* the error of a failed query and goes on with the nil slice.
FlakyTestOf(d, spec, scenario, score) ==
    LET history    == IF d.broken THEN EmptyBag
                      ELSE GetScenarioHistory(d, scenario.ScenarioHeading,
                                              WindowDays)
        totalRuns  == BagCardinality(history)
        failedRuns == FailedIn(history)
    IN [SpecName     |-> spec.SpecHeading,
        ScenarioName |-> scenario.ScenarioHeading,
        FlakyScore   |-> score,
        FailureRate  |-> IF totalRuns > 0
                         THEN Float64Times100(Float64Div(failedRuns, totalRuns))
                         ELSE Float64Zero,
        Occurrences  |-> totalRuns]

\* Inputs of the flaky-test detection: the current run has two scenarios;
\* "Scenario 1" has failed of its total runs in the window and old failed
\* runs before it, "Scenario 2" has one of three fixed histories.
MaxRuns == 20    \* runs of one scenario in the window

FlakySuite ==
    MakeSuite(<<<<Outcome(FALSE, <<PassedStep>>),
                  Outcome(TRUE, <<StepResult(TRUE, PlainMsg, PyStack)>>)>>>>)

\* ages of an execution inside and outside the window
NewDays == WindowDays - 1
OldDays == WindowDays + 1

HistoryBag(name, failed, passed, old) ==
    LET counts == (HistoryRow(name, "failed", NewDays) :> failed)
                  @@ (HistoryRow(name, "passed", NewDays) :> passed)
                  @@ (HistoryRow(name, "failed", OldDays) :> old)
    IN [r \in {r \in DOMAIN counts : counts[r] > 0} |-> counts[r]]

Histories ==
    UNION {{HistoryBag(HeadingAt("Scenario", 1), failed, total - failed, old)
               @@ HistoryBag(HeadingAt("Scenario", 2), other, other, 0) :
               failed \in 0..total, old \in {0, MinRuns}, other \in 0..2} :
           total \in 0..MaxRuns}

Databases ==
    {Nil,
     Ptr([scenario_history |-> HistoryBag(HeadingAt("Scenario", 1), 2, 2, 0),
          executions |-> <<>>, broken |-> TRUE])}
    \cup {Ptr([scenario_history |-> h, executions |-> <<>>, broken |-> FALSE]) :
            h \in Histories}

-----------------------------------------------------------------------------
(* Database.GetTrendData and Engine.GenerateTrends.                        *)

\* A row of executions as GetTrendData scans it.  Its timestamp is the
\* pair of Timestamp, the age of the run in days, and Seconds, the seconds
\* from the conversion of the run the model follows to the conversion of
\* the row's run, in the whole seconds of the stored RFC3339 text
\* (negative: converted earlier, 0: in the same second); the rows of
\* earlier days keep the order of the file and carry 0.
TrendPoint(days, passed, total, duration) ==
    [Timestamp |-> days, Seconds |-> 0,
     SuccessRate |-> Float64Times100(Float64Div(passed, total)),
     Duration |-> duration, Total |-> total, Passed |-> passed,
     Failed |-> total - passed]

RECURSIVE SelectExecutions(_, _)
\* WHERE timestamp >= datetime('now', '-? days') ORDER BY timestamp ASC
SelectExecutions(rows, days) ==
    IF Len(rows) = 0 THEN <<>>
    ELSE IF Head(rows).Timestamp <= days
    THEN <<Head(rows)>> \o SelectExecutions(Tail(rows), days)
    ELSE SelectExecutions(Tail(rows), days)

\* row a has an earlier timestamp than row b
TimestampBefore(a, b) ==
    \/ a.Timestamp > b.Timestamp
    \/ a.Timestamp = b.Timestamp /\ a.Seconds < b.Seconds

\* INSERT INTO executions, seen through ORDER BY timestamp ASC: the row
\* comes after the rows of an earlier timestamp, wherever the INSERT
\* falls.  The query walks idx_execution_timestamp (timestamp DESC)
\* backwards, so of the rows of one timestamp the one inserted last comes
\* first.
InsertExecution(rows, row) ==
    SelectSeq(rows, LAMBDA r : TimestampBefore(r, row))
    \o <<row>>
    \o SelectSeq(rows, LAMBDA r : ~TimestampBefore(r, row))

\* d.broken: the query fails (the file is locked, the table is missing)
GetTrendData(d, days) ==
    IF d.broken THEN [trends |-> <<>>, err |-> Ptr("query failed")]
    ELSE [trends |-> SelectExecutions(d.executions, days), err |-> Nil]

NanosPerMilli == 1000000

EmptyTrendData ==
    [HistoricalRuns |-> <<>>, SuccessRateTrend |-> <<>>,
     ExecutionTimeTrend |-> <<>>, Predictions |-> Nil]

HistoricalRunOf(trend) ==
    [Timestamp |-> trend.Timestamp, Seconds |-> trend.Seconds,
     SuccessRate |-> trend.SuccessRate,
     ExecutionTime |-> trend.Duration * NanosPerMilli,
     PassedCount |-> trend.Passed,
     FailedCount |-> trend.Failed,
     BuildNumber |-> "", GitCommit |-> ""]

Float64Five == Float64Of(5, 1)

\* a - b > c and a - b < -c, for float64 a, b, c >= 0
Float64DiffAbove(a, b, c) == ~FixLess(a, b) /\ Float64Less(c, Float64Sub(a, b))
Float64DiffBelowMinus(a, b, c) == Float64DiffAbove(b, a, c)

\* variant: a change of exactly 5 already counts
QualityTrendInclusive(current, previous) ==
    IF ~FixLess(current.SuccessRate, previous.SuccessRate)
          /\ ~Float64Less(Float64Sub(current.SuccessRate, previous.SuccessRate),
                          Float64Five)
    THEN "improving"
    ELSE IF ~FixLess(previous.SuccessRate, current.SuccessRate)
          /\ ~Float64Less(Float64Sub(previous.SuccessRate, current.SuccessRate),
                          Float64Five)
    THEN "degrading"
    ELSE "stable"

QualityTrendOf(current, previous) ==
    IF Float64DiffAbove(current.SuccessRate, previous.SuccessRate, Float64Five)
    THEN "improving"
    ELSE IF Float64DiffBelowMinus(current.SuccessRate, previous.SuccessRate,
                                  Float64Five)
    THEN "degrading"
    ELSE "stable"

PredictionsOf(historicalRuns) ==
    LET current  == historicalRuns[Len(historicalRuns)]
        previous == historicalRuns[Len(historicalRuns) - 1]
    IN [QualityTrend |-> QualityTrendOf(current, previous),
        NextRunPrediction |->
            [PredictedSuccessRate |-> current.SuccessRate,
             PredictedDuration |-> current.ExecutionTime,
             Confidence |-> Float64Of(7, 10)]]

GenerateTrends(e, enhanced) ==
    IF e.db = Nil THEN EmptyTrendData
    ELSE LET r == GetTrendData(Deref(e.db), WindowDays)
             trends == r.trends
             historicalRuns ==
                 SubSeq([i \in 1..Len(trends) |-> HistoricalRunOf(trends[i])],
                        1, Len(trends))
         IN IF r.err # Nil THEN EmptyTrendData
            ELSE [HistoricalRuns |-> historicalRuns,
                  SuccessRateTrend |->
                      SubSeq([i \in 1..Len(trends) |-> trends[i].SuccessRate],
                             1, Len(trends)),
                  ExecutionTimeTrend |->
                      SubSeq([i \in 1..Len(trends) |->
                                 trends[i].Duration * NanosPerMilli],
                             1, Len(trends)),
                  Predictions |->
                      IF Len(historicalRuns) >= 2
                      THEN Ptr(PredictionsOf(historicalRuns))
                      ELSE Nil]

\* Inputs of GenerateTrends: up to MaxPoints executions in the window, of
\* the success rates 80, 85, 90, 95 and 33.33333333333333, after one
\* execution before the window or none.
MaxPoints == 3

PointKinds ==
    {<<16, 20, 0>>, <<17, 20, 1500>>, <<18, 20, 1500>>, <<19, 20, 0>>,
     <<1, 3, 0>>}

PointsOf(kinds, old) ==
    (IF old THEN <<TrendPoint(OldDays, 20, 20, 1500)>> ELSE <<>>)
    \o SubSeq([i \in 1..Len(kinds) |->
                  TrendPoint(NewDays, kinds[i][1], kinds[i][2], kinds[i][3])],
              1, Len(kinds))

TrendDatabases ==
    {Nil, Ptr([scenario_history |-> <<>>, executions |-> <<>>, broken |-> TRUE])}
    \cup {Ptr([scenario_history |-> <<>>, executions |-> PointsOf(kinds, old),
               broken |-> FALSE]) :
            kinds \in SeqsUpTo(PointKinds, MaxPoints), old \in BOOLEAN}

GenerateTrendsCall ==
    /\ "db" \in DOMAIN fnArgs
    /\ fnOut = NoValue
    /\ fnOut' = [trendData |-> GenerateTrends(NewEngine(fnArgs.db), suite)]
    /\ UNCHANGED <<groupVars, fnArgs, procVars>>

InitTrends ==
    /\ env = UnsetEnv
    /\ suite = FlakySuite
    /\ callsLeft = 0
    /\ analyzer = NewAnalyzer(env)
    /\ pc = "idle"
    /\ pos = EndPos
    /\ groups = <<>>
    /\ llmCalls = <<>>
    /\ returned = <<>>
    /\ fnArgs \in [db : TrendDatabases]
    /\ fnOut = NoValue
    /\ plugin = NoValue
    /\ render = NoValue
    /\ sqlite = NoValue
    /\ others = NoValue
    /\ running = NoValue

SpecTrends == InitTrends /\ [][GenerateTrendsCall]_vars

-----------------------------------------------------------------------------
(* The database file and the processes that share it.  database/sql runs   *)
(* every statement of the package by itself, outside any transaction: what *)
(* another process commits between two statements of a call is visible to  *)
(* the second.  sqlite holds the tables as the next statement finds them;  *)
(* others.left counts the calls other processes still make on the file,    *)
(* others.run the scenario rows another run still has to insert,           *)
(* others.cleanup the table a CleanupOldData deletes from next, and        *)
(* others.acted tells whether any of them has changed the file.            *)

MaxOtherCalls == 1    \* calls of other processes while a call runs

NoOthers == [left |-> 0, run |-> <<>>, cleanup |-> <<>>, locked |-> FALSE,
             acted |-> FALSE]

\* the file of the handle db and the processes around it
SharedFile(db) == IF db = Nil THEN NoValue ELSE Deref(db)
OthersOn(db, calls) ==
    IF db = Nil THEN NoValue ELSE [NoOthers EXCEPT !.left = calls]

\* e.db, rb.db: nil, or the handle on the file as it is now
Handle == IF fnArgs.db = Nil THEN Nil ELSE Ptr(sqlite)

\* no other process has changed the file since the call began
Quiet == others = NoValue \/ ~others.acted

\* The statements of other processes count where a statement of the
\* program can still follow them: before the call and while a call on the
\* database runs.  Between two such calls the program reads nothing, and
\* what is committed then is found by the first statement of the next call
\* as if it were committed just before it.
OthersTurn == sqlite # NoValue /\ (fnOut = NoValue \/ running # NoValue)

\* another run of the plugin stores its results: the scenarios of the
\* suite under their names, each passed or failed
OtherScenarioNames == <<HeadingAt("Scenario", 1), HeadingAt("Scenario", 2)>>
OtherStatuses      == {"passed", "failed"}

PassedOf(statuses) ==
    Cardinality({i \in DOMAIN statuses : statuses[i] = "passed"})

\* The other run was converted a minute before the run the model
\* follows, in the same second, or a minute after it: its suite.Timestamp
\* is taken at its conversion (builder.go:160), whenever its INSERT
\* commits.
ConversionOffsets == {-60, 0, 60}

OtherExecutionPoint(statuses, seconds) ==
    [TrendPoint(0, PassedOf(statuses), Len(statuses), 0)
        EXCEPT !.Seconds = seconds]

\* SaveExecutionData of the other run: its INSERT INTO executions
OtherSaveExecution ==
    /\ OthersTurn
    /\ others.left > 0
    /\ others.run = <<>>
    /\ ~sqlite.broken
    /\ \E statuses \in [DOMAIN OtherScenarioNames -> OtherStatuses],
          seconds \in ConversionOffsets :
          /\ sqlite' = [sqlite EXCEPT !.executions =
                           InsertExecution(@, OtherExecutionPoint(statuses,
                                                                  seconds))]
          /\ others' = [others EXCEPT
                           !.left = @ - 1,
                           !.run = SubSeq([i \in DOMAIN statuses |->
                                              HistoryRow(OtherScenarioNames[i],
                                                         statuses[i], 0)],
                                          1, Len(statuses)),
                           !.acted = TRUE]
    /\ UNCHANGED <<groupVars, fnVars, plugin, render, running>>

\* one INSERT INTO scenario_history of the other run; a failed insert is
\* skipped
OtherSaveScenario ==
    /\ OthersTurn
    /\ others.run # <<>>
    /\ sqlite' = IF sqlite.broken THEN sqlite
                 ELSE [sqlite EXCEPT !.scenario_history =
                          @ (+) SetToBag({Head(others.run)})]
    /\ others' = [others EXCEPT !.run = Tail(@)]
    /\ UNCHANGED <<groupVars, fnVars, plugin, render, running>>

\* Database.CleanupOldData: one DELETE per table, in this order
CleanupTables == <<"scenario_history", "performance_metrics", "executions">>

\* retentions that keep the whole window of the queries, and less
RetentionDays == {WindowDays, NewDays - 1}

\* DELETE FROM table WHERE created_at < datetime('now', '-? days'); a row
\* is taken to be created on the day of its execution.  The rows of
\* scenario_history whose execution is deleted no longer join.
DeleteOldData(d, table, retentionDays) ==
    LET kept == [r \in {r \in DOMAIN d.scenario_history : r.days <= retentionDays}
                    |-> d.scenario_history[r]]
    IN IF d.broken THEN d
       ELSE IF table = "scenario_history"
       THEN [d EXCEPT !.scenario_history = kept]
       ELSE IF table = "executions"
       THEN [d EXCEPT !.scenario_history = kept,
                      !.executions = SelectExecutions(@, retentionDays)]
       ELSE d

CleanupOldDataCall ==
    /\ OthersTurn
    /\ others.left > 0
    /\ others.cleanup = <<>>
    /\ \E retentionDays \in RetentionDays :
          others' = [others EXCEPT !.left = @ - 1,
                                   !.cleanup = <<1, retentionDays>>]
    /\ UNCHANGED <<groupVars, fnVars, plugin, render, sqlite, running>>

\* one turn of its loop: a failed DELETE is logged and the loop goes on
CleanupOldDataDelete ==
    /\ OthersTurn
    /\ others.cleanup # <<>>
    /\ sqlite' = DeleteOldData(sqlite, CleanupTables[others.cleanup[1]],
                               others.cleanup[2])
    /\ others' = [others EXCEPT
                     !.cleanup = IF others.cleanup[1] = Len(CleanupTables)
                                 THEN <<>>
                                 ELSE <<others.cleanup[1] + 1, others.cleanup[2]>>,
                     !.acted = @ \/ sqlite' # sqlite]
    /\ UNCHANGED <<groupVars, fnVars, plugin, render, running>>

\* another process holds the lock on the file for longer than a statement
\* waits: the statements of the call fail until the lock is released
FileLocked ==
    /\ OthersTurn
    /\ others.left > 0
    /\ ~sqlite.broken
    /\ sqlite' = [sqlite EXCEPT !.broken = TRUE]
    /\ others' = [others EXCEPT !.left = @ - 1, !.locked = TRUE, !.acted = TRUE]
    /\ UNCHANGED <<groupVars, fnVars, plugin, render, running>>

FileReleased ==
    /\ OthersTurn
    /\ others.locked
    /\ sqlite' = [sqlite EXCEPT !.broken = FALSE]
    /\ others' = [others EXCEPT !.locked = FALSE]
    /\ UNCHANGED <<groupVars, fnVars, plugin, render, running>>

-----------------------------------------------------------------------------
(* Engine.DetectFlakyTests, statement by statement.  running.p is the      *)
(* scenario of the nested range loops, running.at the query that comes     *)
(* next for it, running.queries what the queries have read so far.         *)

NewDetection(specs) ==
    [fn |-> "DetectFlakyTests", p |-> NextPos(specs, 1, 0), at |-> "score",
     score |-> Float64Zero, flakyTests |-> <<>>, queries |-> <<>>]

Detecting == running # NoValue /\ running.fn = "DetectFlakyTests"

\* what a query on the file d reads for the scenario name
QueryRead(query, d, name) ==
    [query |-> query, scenario_name |-> name, failed |-> d.broken,
     totalRuns |-> IF d.broken THEN 0
                   ELSE BagCardinality(SelectHistory(d, name, WindowDays)),
     failedRuns |-> IF d.broken THEN 0
                    ELSE FailedIn(SelectHistory(d, name, WindowDays))]

\* "score, err := e.db.CalculateFlakyScore(...)", the "continue" on an
\* error and the test "score > flakyThreshold"
CalculateFlakyScoreQuery ==
    /\ Detecting
    /\ running.p # EndPos
    /\ running.at = "score"
    /\ LET specs    == suite.SpecResults
           scenario == specs[running.p[1]].Scenarios[running.p[2]]
           r        == CalculateFlakyScore(sqlite, scenario.ScenarioHeading,
                                           WindowDays)
           read     == QueryRead("CalculateFlakyScore", sqlite,
                                 scenario.ScenarioHeading)
       IN running' =
             IF r.err = Nil /\ Float64Less(FlakyThreshold, r.score)
             THEN [running EXCEPT !.at = "history", !.score = r.score,
                                  !.queries = Append(@, read)]
             ELSE [running EXCEPT !.p = NextPos(specs, @[1], @[2]),
                                  !.queries = Append(@, read)]
    /\ UNCHANGED <<groupVars, fnVars, plugin, render, sqlite, others>>

\* "history, _ := e.db.GetScenarioHistory(...)" and the append of the
\* FlakyTest
GetScenarioHistoryQuery ==
    /\ Detecting
    /\ running.p # EndPos
    /\ running.at = "history"
    /\ LET specs    == suite.SpecResults
           spec     == specs[running.p[1]]
           scenario == spec.Scenarios[running.p[2]]
       IN running' =
             [running EXCEPT
                 !.p = NextPos(specs, @[1], @[2]),
                 !.at = "score",
                 !.flakyTests = Append(@, FlakyTestOf(sqlite, spec, scenario,
                                                      running.score)),
                 !.queries = Append(@, QueryRead("GetScenarioHistory", sqlite,
                                                 scenario.ScenarioHeading))]
    /\ UNCHANGED <<groupVars, fnVars, plugin, render, sqlite, others>>

\* One DetectFlakyTests(suite) on the engine of the database, when there is
\* one: "if e.db == nil" returns the empty list.
DetectFlakyTestsCall ==
    /\ "db" \in DOMAIN fnArgs
    /\ "proto" \notin DOMAIN fnArgs
    /\ "flakyTests" \notin DOMAIN fnOut
    /\ running = NoValue
    /\ IF fnArgs.db = Nil
       THEN /\ fnOut' = fnOut @@ [flakyTests |-> <<>>, queries |-> <<>>]
            /\ running' = running
       ELSE /\ running' = NewDetection(suite.SpecResults)
            /\ fnOut' = fnOut
    /\ UNCHANGED <<groupVars, fnArgs, plugin, render, sqlite, others>>

\* "return flakyTests", to the direct caller or into BuildReport, which
\* goes on to GroupFailures
DetectFlakyTestsReturn ==
    /\ Detecting
    /\ running.p = EndPos
    /\ running' = NoValue
    /\ IF "proto" \in DOMAIN fnArgs
       THEN /\ fnOut' = [fnOut EXCEPT !.enhanced =
                            @ @@ [FlakyTests |-> running.flakyTests],
                                      !.queries = @ \o running.queries]
            /\ callsLeft' = 1
       ELSE /\ fnOut' = fnOut @@ [flakyTests |-> running.flakyTests,
                                  queries |-> running.queries]
            /\ callsLeft' = callsLeft
    /\ UNCHANGED <<env, analyzer, suite, pc, pos, groups, llmCalls, returned,
                   fnArgs, plugin, render, sqlite, others>>

\* one CalculateFlakyScore("Scenario 1", 30) on the database, when there is
\* one
CalculateFlakyScoreCall ==
    /\ "db" \in DOMAIN fnArgs
    /\ "proto" \notin DOMAIN fnArgs
    /\ fnArgs.db # Nil
    /\ "score" \notin DOMAIN fnOut
    /\ fnOut' = fnOut @@
          [score |-> CalculateFlakyScore(sqlite, HeadingAt("Scenario", 1),
                                         WindowDays),
           scoreRead |-> QueryRead("CalculateFlakyScore", sqlite,
                                   HeadingAt("Scenario", 1))]
    /\ UNCHANGED <<groupVars, fnArgs, procVars>>

\* Inputs of a detection on a file that other processes write to: in the
\* window "Scenario 1" has failed of its total runs and "Scenario 2" one
\* failed and one passed run.
MaxHistoryRuns == 4    \* runs of "Scenario 1" in the window

HistoryDatabases ==
    UNION {{Ptr([scenario_history |->
                     HistoryBag(HeadingAt("Scenario", 1), failed, total - failed, 0)
                     (+) HistoryBag(HeadingAt("Scenario", 2), 1, 1, 0),
                 executions |-> <<>>, broken |-> FALSE]) :
               failed \in 0..total} :
           total \in 0..MaxHistoryRuns}

InitDetection(databases, calls) ==
    /\ env = UnsetEnv
    /\ suite = FlakySuite
    /\ callsLeft = 0
    /\ analyzer = NewAnalyzer(env)
    /\ pc = "idle"
    /\ pos = EndPos
    /\ groups = <<>>
    /\ llmCalls = <<>>
    /\ returned = <<>>
    /\ fnArgs \in [db : databases]
    /\ fnOut = NoValue
    /\ plugin = NoValue
    /\ render = NoValue
    /\ sqlite = SharedFile(fnArgs.db)
    /\ others = OthersOn(fnArgs.db, calls)
    /\ running = NoValue

InitHistory == InitDetection(HistoryDatabases, MaxOtherCalls)

\* the histories of up to MaxRuns runs on a file nothing else writes to,
\* and those of InitHistory
InitFlaky == InitDetection(Databases, 0) \/ InitHistory

NextFlaky ==
    \/ CalculateFlakyScoreCall
    \/ DetectFlakyTestsCall
    \/ CalculateFlakyScoreQuery
    \/ GetScenarioHistoryQuery
    \/ DetectFlakyTestsReturn
    \/ OtherSaveExecution
    \/ OtherSaveScenario
    \/ CleanupOldDataCall
    \/ CleanupOldDataDelete
    \/ FileLocked
    \/ FileReleased

SpecFlaky == InitFlaky /\ [][NextFlaky]_vars

SpecHistory == InitHistory /\ [][NextFlaky]_vars

-----------------------------------------------------------------------------
(* Analyzer.GenerateExecutiveSummary.  The texts are the program's without *)
(* the pictograph each of them starts with.                                *)

\* variant: the lower bounds are exclusive
HealthStatusExclusive(successRate) ==
    IF Float64Less(Float64Of(95, 1), successRate) THEN "Excellent"
    ELSE IF Float64Less(Float64Of(85, 1), successRate) THEN "Good"
    ELSE IF Float64Less(Float64Of(70, 1), successRate) THEN "Fair"
    ELSE "Poor"

HealthStatusOf(successRate) ==
    IF ~Float64Less(successRate, Float64Of(95, 1)) THEN "Excellent"
    ELSE IF ~Float64Less(successRate, Float64Of(85, 1)) THEN "Good"
    ELSE IF ~Float64Less(successRate, Float64Of(70, 1)) THEN "Fair"
    ELSE "Poor"

\* variant: the patterns message also for as many groups as failed scenarios
KeyInsightsInclusive(enhanced, failureGroups) ==
    (IF enhanced.FailedScenariosCount = 0
     THEN <<"All tests passed successfully - no failures detected">>
     ELSE <<ToString(enhanced.FailedScenariosCount) \o " scenario(s) failed out of "
            \o ToString(enhanced.TotalScenariosCount) \o " total">>)
    \o (IF Len(failureGroups) = 1
        THEN <<"Single root cause identified - focused fix possible">>
        ELSE IF Len(failureGroups) > 0
                /\ Len(failureGroups) <= enhanced.FailedScenariosCount
        THEN <<ToString(Len(failureGroups)) \o " unique failure patterns detected">>
        ELSE <<>>)
    \o (IF Len(enhanced.FlakyTests) > 0
        THEN <<ToString(Len(enhanced.FlakyTests))
               \o " flaky test(s) detected - needs stabilization">>
        ELSE <<>>)

KeyInsightsOf(enhanced, failureGroups) ==
    (IF enhanced.FailedScenariosCount = 0
     THEN <<"All tests passed successfully - no failures detected">>
     ELSE <<ToString(enhanced.FailedScenariosCount) \o " scenario(s) failed out of "
            \o ToString(enhanced.TotalScenariosCount) \o " total">>)
    \o (IF Len(failureGroups) = 1
        THEN <<"Single root cause identified - focused fix possible">>
        ELSE IF Len(failureGroups) > 0
                /\ Len(failureGroups) < enhanced.FailedScenariosCount
        THEN <<ToString(Len(failureGroups)) \o " unique failure patterns detected">>
        ELSE <<>>)
    \o (IF Len(enhanced.FlakyTests) > 0
        THEN <<ToString(Len(enhanced.FlakyTests))
               \o " flaky test(s) detected - needs stabilization">>
        ELSE <<>>)

\* variant: only the groups of severity critical get a line
RECURSIVE CriticalIssuesCriticalOnly(_)
CriticalIssuesCriticalOnly(failureGroups) ==
    IF Len(failureGroups) = 0 THEN <<>>
    ELSE LET group == Head(failureGroups)
         IN (IF group.Severity = "critical"
             THEN <<group.ErrorType \o ": " \o group.RootCause \o " (affects "
                    \o ToString(group.Count) \o " scenario(s))">>
             ELSE <<>>)
            \o CriticalIssuesCriticalOnly(Tail(failureGroups))

RECURSIVE CriticalIssuesOf(_)
CriticalIssuesOf(failureGroups) ==
    IF Len(failureGroups) = 0 THEN <<>>
    ELSE LET group == Head(failureGroups)
         IN (IF group.Severity \in {"critical", "high"}
             THEN <<group.ErrorType \o ": " \o group.RootCause \o " (affects "
                    \o ToString(group.Count) \o " scenario(s))">>
             ELSE <<>>)
            \o CriticalIssuesOf(Tail(failureGroups))

TrendIndicatorOf(enhanced) ==
    IF enhanced.Trends # Nil /\ Len(Deref(enhanced.Trends).HistoricalRuns) > 1
    THEN LET runs     == Deref(enhanced.Trends).HistoricalRuns
             current  == enhanced.SuccessRate
             previous == runs[Len(runs) - 1].SuccessRate
         IN IF Float64DiffAbove(current, previous, Float64Five) THEN "Improving"
            ELSE IF Float64DiffBelowMinus(current, previous, Float64Five)
            THEN "Declining"
            ELSE "Stable"
    ELSE "Baseline"

\* variant: a declining trend is looked at before the critical issues
generateRecommendationTrendFirst(summary) ==
    IF summary.HealthStatus = "Excellent"
    THEN "Continue maintaining high quality standards. Monitor for any new flaky tests."
    ELSE IF summary.TrendIndicator = "Declining"
    THEN "Investigate declining success rate. Review recent changes and consider rolling back if necessary."
    ELSE IF Len(summary.CriticalIssues) > 0
    THEN "Address critical failures immediately before proceeding with new deployments."
    ELSE "Focus on stabilizing failing scenarios. Prioritize fixes based on failure frequency."

generateRecommendation(summary) ==
    IF summary.HealthStatus = "Excellent"
    THEN "Continue maintaining high quality standards. Monitor for any new flaky tests."
    ELSE IF Len(summary.CriticalIssues) > 0
    THEN "Address critical failures immediately before proceeding with new deployments."
    ELSE IF summary.TrendIndicator = "Declining"
    THEN "Investigate declining success rate. Review recent changes and consider rolling back if necessary."
    ELSE "Focus on stabilizing failing scenarios. Prioritize fixes based on failure frequency."

GenerateExecutiveSummary(a, enhanced, failureGroups) ==
    LET summary == [HealthStatus |-> HealthStatusOf(enhanced.SuccessRate),
                    KeyInsights |-> KeyInsightsOf(enhanced, failureGroups),
                    CriticalIssues |-> CriticalIssuesOf(failureGroups),
                    TrendIndicator |-> TrendIndicatorOf(enhanced)]
    IN [HealthStatus |-> summary.HealthStatus,
        KeyInsights |-> summary.KeyInsights,
        CriticalIssues |-> summary.CriticalIssues,
        TrendIndicator |-> summary.TrendIndicator,
        Recommendation |-> generateRecommendation(summary)]

\* Inputs of GenerateExecutiveSummary: the success rates of the documented
\* boundaries and of 13, 14, 16, 17 and 19 passed scenarios of 20; up to
\* MaxGroups failure groups; no trend data, or the trend data of up to
\* MaxPoints executions with success rates 80 and 90.
MaxGroups == 2

SummaryRates ==
    {Float64Of(tenths, 10) : tenths \in {950, 949, 850, 849, 700, 699}}
    \cup {Float64Times100(Float64Div(passed, 20)) : passed \in {13, 14, 16, 17, 19}}

SummaryGroups ==
    {[ErrorType |-> ErrorTypeAssertion, RootCause |-> AssertMsg1, Count |-> 2,
      Severity |-> calculateSeverity(ErrorTypeAssertion, 2)],
     [ErrorType |-> ErrorTypeUnknown, RootCause |-> PlainMsg, Count |-> 1,
      Severity |-> calculateSeverity(ErrorTypeUnknown, 1)]}

SummaryTrends ==
    {Nil} \cup
    {Ptr(GenerateTrends(
            NewEngine(Ptr([scenario_history |-> <<>>,
                           executions |-> PointsOf(kinds, FALSE),
                           broken |-> FALSE])),
            FlakySuite)) :
        kinds \in SeqsUpTo({<<16, 20, 0>>, <<18, 20, 1500>>}, MaxPoints)}

SummaryFlaky ==
    {<<>>, <<[SpecName |-> HeadingAt("Spec", 1),
              ScenarioName |-> HeadingAt("Scenario", 1),
              FlakyScore |-> Float64One, FailureRate |-> Float64Of(50, 1),
              Occurrences |-> 4]>>}

RECURSIVE SumCounts(_)
SumCounts(failureGroups) ==
    IF Len(failureGroups) = 0 THEN 0
    ELSE Head(failureGroups).Count + SumCounts(Tail(failureGroups))

SummaryInputs ==
    {[enhanced |-> [SuccessRate |-> rate,
                    TotalScenariosCount |-> 20,
                    FailedScenariosCount |-> SumCounts(failureGroups),
                    FlakyTests |-> flaky,
                    Trends |-> trends],
      failureGroups |-> failureGroups] :
        rate \in SummaryRates, failureGroups \in SeqsUpTo(SummaryGroups, MaxGroups),
        flaky \in SummaryFlaky, trends \in SummaryTrends}

GenerateExecutiveSummaryCall ==
    /\ "enhanced" \in DOMAIN fnArgs
    /\ fnOut = NoValue
    /\ fnOut' = [summary |-> GenerateExecutiveSummary(analyzer, fnArgs.enhanced,
                                                      fnArgs.failureGroups)]
    /\ UNCHANGED <<groupVars, fnArgs, procVars>>

InitSummary ==
    /\ env = UnsetEnv
    /\ suite = MakeSuite(<<>>)
    /\ callsLeft = 0
    /\ analyzer = NewAnalyzer(env)
    /\ pc = "idle"
    /\ pos = EndPos
    /\ groups = <<>>
    /\ llmCalls = <<>>
    /\ returned = <<>>
    /\ fnArgs \in SummaryInputs
    /\ fnOut = NoValue
    /\ plugin = NoValue
    /\ render = NoValue
    /\ sqlite = NoValue
    /\ others = NoValue
    /\ running = NoValue

SpecSummary == InitSummary /\ [][GenerateExecutiveSummaryCall]_vars

\* Inputs for the insights and the critical issues: a run of InsightTotal
\* scenarios without trend data, up to MaxGroups failure groups of severity
\* high, medium and critical, and up to MaxUngrouped failed scenarios that
\* are in no group (a failed scenario without a failed step with a message).
MaxUngrouped == 2
InsightTotal == 20

InsightGroups ==
    SummaryGroups \cup
    {[ErrorType |-> ErrorTypeDatabase, RootCause |-> QueryMsg, Count |-> 1,
      Severity |-> calculateSeverity(ErrorTypeDatabase, 1)]}

InsightInputs ==
    {[enhanced |-> [SuccessRate |->
                        Float64Times100(Float64Div(
                            InsightTotal - (SumCounts(failureGroups) + ungrouped),
                            InsightTotal)),
                    TotalScenariosCount |-> InsightTotal,
                    FailedScenariosCount |-> SumCounts(failureGroups) + ungrouped,
                    FlakyTests |-> flaky,
                    Trends |-> Nil],
      failureGroups |-> failureGroups] :
        failureGroups \in SeqsUpTo(InsightGroups, MaxGroups),
        flaky \in SummaryFlaky, ungrouped \in 0..MaxUngrouped}

InitInsights ==
    /\ env = UnsetEnv
    /\ suite = MakeSuite(<<>>)
    /\ callsLeft = 0
    /\ analyzer = NewAnalyzer(env)
    /\ pc = "idle"
    /\ pos = EndPos
    /\ groups = <<>>
    /\ llmCalls = <<>>
    /\ returned = <<>>
    /\ fnArgs \in InsightInputs
    /\ fnOut = NoValue
    /\ plugin = NoValue
    /\ render = NoValue
    /\ sqlite = NoValue
    /\ others = NoValue
    /\ running = NoValue

SpecInsights == InitInsights /\ [][GenerateExecutiveSummaryCall]_vars

-----------------------------------------------------------------------------
(* Engine.SaveExecutionData and ReportBuilder.BuildReport.                 *)

\* The upstream result (gauge_messages): a spec holds items, of which the
\* scenarios are converted; a scenario holds items, of which the steps are
\* converted; a step carries the fields of its execution result.
ItemStep     == "Step"
ItemScenario == "Scenario"
ItemComment  == "Comment"

IsStepItem(item)     == item.ItemType = ItemStep
IsScenarioItem(item) == item.ItemType = ItemScenario

convertStep(proto) ==
    [StepText |-> proto.ParsedText,
     Failed |-> proto.Failed,
     Skipped |-> proto.Skipped,
     ErrorMessage |-> IF proto.Failed THEN proto.ErrorMessage ELSE "",
     StackTrace |-> IF proto.Failed THEN proto.StackTrace ELSE ""]

\* variant: the failed flag of the upstream scenario is copied as it is
convertScenarioCopiesFlag(proto) ==
    LET items == SelectSeq(proto.ScenarioItems, IsStepItem)
        steps == SubSeq([i \in 1..Len(items) |-> convertStep(items[i].Step)],
                        1, Len(items))
    IN [ScenarioHeading |-> proto.ScenarioHeading,
        Failed |-> proto.Failed,
        Skipped |-> proto.Skipped,
        Steps |-> steps]

convertScenario(proto) ==
    LET items == SelectSeq(proto.ScenarioItems, IsStepItem)
        steps == SubSeq([i \in 1..Len(items) |-> convertStep(items[i].Step)],
                        1, Len(items))
    IN [ScenarioHeading |-> proto.ScenarioHeading,
        Failed |-> proto.Failed \/ \E i \in 1..Len(steps) : steps[i].Failed,
        Skipped |-> proto.Skipped,
        Steps |-> steps]

convertSpecResult(proto) ==
    LET items == SelectSeq(proto.Items, IsScenarioItem)
    IN [SpecHeading |-> proto.SpecHeading,
        Failed |-> proto.Failed,
        Skipped |-> proto.Skipped,
        Scenarios |-> SubSeq([i \in 1..Len(items) |-> convertScenario(items[i].Scenario)],
                             1, Len(items))]

convertToEnhancedSuite(proto) ==
    LET specs == SubSeq([i \in 1..Len(proto.SpecResults) |->
                            convertSpecResult(proto.SpecResults[i])],
                        1, Len(proto.SpecResults))
        positions == UNION {{<<si, ci>> : ci \in DOMAIN specs[si].Scenarios} :
                               si \in DOMAIN specs}
        scenarioAt(p) == specs[p[1]].Scenarios[p[2]]
        total   == Cardinality(positions)
        failed  == Cardinality({p \in positions : scenarioAt(p).Failed})
        skipped == Cardinality({p \in positions :
                       ~scenarioAt(p).Failed /\ scenarioAt(p).Skipped})
        passed  == Cardinality({p \in positions :
                       ~scenarioAt(p).Failed /\ ~scenarioAt(p).Skipped})
    IN [SpecResults |-> specs,
        TotalScenariosCount |-> total,
        FailedScenariosCount |-> failed,
        SkippedScenariosCount |-> skipped,
        PassedScenariosCount |-> passed,
        SuccessRate |-> IF total > 0
                        THEN Float64Times100(Float64Div(passed, total))
                        ELSE Float64Zero]

\* the upstream result that converts to the suite s (no scenario skipped)
ProtoStepOf(step) ==
    [ParsedText |-> step.StepText, Failed |-> step.Failed, Skipped |-> FALSE,
     ErrorMessage |-> step.ErrorMessage, StackTrace |-> step.StackTrace]

ProtoScenarioOf(scenario) ==
    [ScenarioHeading |-> scenario.ScenarioHeading,
     Failed |-> scenario.Failed, Skipped |-> FALSE,
     ScenarioItems |->
        SubSeq([i \in 1..Len(scenario.Steps) |->
                   [ItemType |-> ItemStep, Step |-> ProtoStepOf(scenario.Steps[i])]],
               1, Len(scenario.Steps))]

ProtoSuiteOf(s) ==
    [SpecResults |->
        SubSeq([i \in 1..Len(s.SpecResults) |->
                   [SpecHeading |-> s.SpecResults[i].SpecHeading,
                    Failed |-> \E j \in 1..Len(s.SpecResults[i].Scenarios) :
                                  s.SpecResults[i].Scenarios[j].Failed,
                    Skipped |-> FALSE,
                    Items |->
                       SubSeq([j \in 1..Len(s.SpecResults[i].Scenarios) |->
                                  [ItemType |-> ItemScenario,
                                   Scenario |->
                                      ProtoScenarioOf(s.SpecResults[i].Scenarios[j])]],
                              1, Len(s.SpecResults[i].Scenarios))]],
               1, Len(s.SpecResults))]

\* Inputs of convertToEnhancedSuite: one spec (or none) that starts with a
\* comment and holds up to MaxConvertScenarios scenarios; a scenario is
\* marked failed or not and skipped or not upstream, and holds a comment
\* and a failed step, or a passed and a skipped step.
MaxConvertScenarios == 3

ProtoStep(failed, skipped, msg, stack) ==
    [ParsedText |-> "Verify count", Failed |-> failed, Skipped |-> skipped,
     ErrorMessage |-> msg, StackTrace |-> stack]

StepItem(step) == [ItemType |-> ItemStep, Step |-> step]
CommentItem    == [ItemType |-> ItemComment]

FailedItems ==
    <<CommentItem, StepItem(ProtoStep(TRUE, FALSE, TimeoutMsg, PyStack))>>
PassedItems ==
    <<StepItem(ProtoStep(FALSE, FALSE, "", "")),
      StepItem(ProtoStep(FALSE, TRUE, "", ""))>>

ConvertItems == {FailedItems, PassedItems}

ConvertScenarios ==
    {[Failed |-> failed, Skipped |-> skipped, ScenarioItems |-> items] :
        failed \in BOOLEAN, skipped \in BOOLEAN, items \in ConvertItems}

ConvertProtoOf(f) ==
    [SpecResults |->
        IF Len(f) = 0 THEN <<>>
        ELSE <<[SpecHeading |-> HeadingAt("Spec", 1),
                Failed |-> \E j \in 1..Len(f) : f[j].Failed,
                Skipped |-> \A j \in 1..Len(f) : f[j].Skipped,
                Items |->
                   <<CommentItem>> \o
                   SubSeq([j \in 1..Len(f) |->
                              [ItemType |-> ItemScenario,
                               Scenario |->
                                  f[j] @@ [ScenarioHeading |->
                                              HeadingAt("Scenario", j)]]],
                          1, Len(f))]>>]

ConvertProtos ==
    {ConvertProtoOf(f) : f \in SeqsUpTo(ConvertScenarios, MaxConvertScenarios)}

convertToEnhancedSuiteCall ==
    /\ DOMAIN fnArgs = {"proto"}
    /\ fnOut = NoValue
    /\ fnOut' = [enhanced |-> convertToEnhancedSuite(fnArgs.proto)]
    /\ UNCHANGED <<groupVars, fnArgs, procVars>>

InitConvert ==
    /\ env = UnsetEnv
    /\ suite = MakeSuite(<<>>)
    /\ callsLeft = 0
    /\ analyzer = NewAnalyzer(env)
    /\ pc = "idle"
    /\ pos = EndPos
    /\ groups = <<>>
    /\ llmCalls = <<>>
    /\ returned = <<>>
    /\ fnArgs \in [proto : ConvertProtos]
    /\ fnOut = NoValue
    /\ plugin = NoValue
    /\ render = NoValue
    /\ sqlite = NoValue
    /\ others = NoValue
    /\ running = NoValue

SpecConvert == InitConvert /\ [][convertToEnhancedSuiteCall]_vars

\* variant: a skipped scenario is stored as skipped even when it failed
StatusSkippedFirst(scenario) ==
    IF scenario.Skipped THEN "skipped"
    ELSE IF scenario.Failed THEN "failed"
    ELSE "passed"

\* the status SaveExecutionData stores for a scenario
StatusOf(scenario) ==
    IF scenario.Failed THEN "failed"
    ELSE IF scenario.Skipped THEN "skipped"
    ELSE "passed"

ScenarioRecord(executionID, spec, scenario) ==
    [execution_id |-> executionID,
     scenario_name |-> scenario.ScenarioHeading,
     spec_name |-> spec.SpecHeading,
     status |-> StatusOf(scenario)]

ExecutionsTable == "executions"
HistoryTable    == "scenario_history"

\* Engine.SaveExecutionData, statement by statement.  running.at is the
\* insert that comes next, running.p the scenario of the nested range
\* loops, running.writes the rows inserted by this call in the order of
\* their insertion, running.attempts the records handed to SaveScenario and
\* running.failed the scenarios whose insert failed.  SaveScenario fails
\* while the file is locked and for the scenarios at the positions in
\* running.faults.
NewSave(executionID, faults) ==
    [fn |-> "SaveExecutionData", at |-> "execution", p |-> EndPos,
     executionID |-> executionID, faults |-> faults, err |-> Nil,
     writes |-> <<>>, attempts |-> <<>>, failed |-> {}]

Saving == running # NoValue /\ running.fn = "SaveExecutionData"

\* the suite handed to the running SaveExecutionData
SavedSuite ==
    IF "enhanced" \in DOMAIN fnArgs THEN fnArgs.enhanced ELSE fnOut.enhanced

\* the row of executions, as GetTrendData selects it; its timestamp is
\* suite.Timestamp, the time of the conversion of this run, and its
\* duration suite.ExecutionTime, 0 ms in the runs of the inputs
ExecutionPoint(enhanced) ==
    [Timestamp |-> 0, Seconds |-> 0,
     SuccessRate |-> enhanced.SuccessRate,
     Duration |-> 0,
     Total |-> enhanced.TotalScenariosCount,
     Passed |-> enhanced.PassedScenariosCount,
     Failed |-> enhanced.FailedScenariosCount]

\* "if e.db == nil { return fmt.Errorf(...) }"
SaveWithoutDatabase ==
    [db |-> Nil, err |-> Ptr("database not initialized"),
     writes |-> <<>>, attempts |-> <<>>, failed |-> {}]

\* "if err := e.db.SaveExecution(execution); err != nil { return ... }"
SaveExecution ==
    /\ Saving
    /\ running.at = "execution"
    /\ IF sqlite.broken
       THEN /\ running' = [running EXCEPT
                              !.at = "return",
                              !.err = Ptr("failed to save execution")]
            /\ sqlite' = sqlite
       ELSE /\ sqlite' = [sqlite EXCEPT !.executions =
                             InsertExecution(@, ExecutionPoint(SavedSuite))]
            /\ running' = [running EXCEPT
                              !.at = "scenario",
                              !.p = NextPos(SavedSuite.SpecResults, 1, 0),
                              !.writes = <<[table |-> ExecutionsTable,
                                            row |-> [id |-> running.executionID]]>>]
    /\ UNCHANGED <<groupVars, fnVars, plugin, render, others>>

\* one turn of the loops: "if err := e.db.SaveScenario(scenarioRecord);
\* err != nil { continue }"
SaveScenario ==
    /\ Saving
    /\ running.at = "scenario"
    /\ running.p # EndPos
    /\ LET specs  == SavedSuite.SpecResults
           record == ScenarioRecord(running.executionID, specs[running.p[1]],
                                    specs[running.p[1]].Scenarios[running.p[2]])
           stored == ~sqlite.broken /\ running.p \notin running.faults
       IN /\ sqlite' =
                IF stored
                THEN [sqlite EXCEPT !.scenario_history =
                         @ (+) SetToBag({HistoryRow(record.scenario_name,
                                                    record.status, 0)})]
                ELSE sqlite
          /\ running' =
                [running EXCEPT
                    !.p = NextPos(specs, @[1], @[2]),
                    !.attempts = Append(@, record),
                    !.writes = IF stored
                               THEN Append(@, [table |-> HistoryTable,
                                               row |-> record])
                               ELSE @,
                    !.failed = IF stored THEN @ ELSE @ \cup {running.p}]
    /\ UNCHANGED <<groupVars, fnVars, plugin, render, others>>

\* the return of the error or of nil, to the direct caller or into
\* BuildReport; db is the file as the call leaves it
SaveExecutionDataReturn ==
    /\ Saving
    /\ running.at = "return" \/ (running.at = "scenario" /\ running.p = EndPos)
    /\ running' = NoValue
    /\ LET result == [db |-> Ptr(sqlite), err |-> running.err,
                      writes |-> running.writes,
                      attempts |-> running.attempts,
                      failed |-> running.failed]
       IN fnOut' = IF "proto" \in DOMAIN fnArgs
                   THEN fnOut @@ [save |-> [attempted |-> TRUE,
                                            result |-> result]]
                   ELSE [save |-> result]
    /\ UNCHANGED <<groupVars, fnArgs, plugin, render, sqlite, others>>

\* the id uuid.New draws for the execution
NewUUID == "3f2c9a64-5b1e-4d7a-9c0f-2e8b7a6d5c41"

\* Inputs of SaveExecutionData: no database, a failing one, an empty one or
\* one that holds a run of "Scenario 1"; the converted run of one spec of up
\* to MaxSaveScenarios scenarios that passed, were skipped, failed, or were
\* marked skipped and failed at a step; any set of scenarios for which
\* SaveScenario fails.
MaxSaveScenarios == 2

\* the rows of a run of "Scenario 1" that passed, converted in the same
\* second as the run the model follows and stored before the call
SameSecondPoint   == TrendPoint(0, 1, 1, 1500)
SameSecondHistory == SetToBag({HistoryRow(HeadingAt("Scenario", 1), "passed", 0)})

SaveDatabases ==
    {Nil, Ptr([scenario_history |-> <<>>, executions |-> <<>>, broken |-> TRUE])}
    \cup {Ptr([scenario_history |-> HistoryBag(HeadingAt("Scenario", 1), 0, runs, 0),
               executions |-> PointsOf([i \in 1..runs |-> <<20, 20, 0>>], FALSE),
               broken |-> FALSE]) : runs \in {0, 1}}
    \cup {Ptr([scenario_history |-> HistoryBag(HeadingAt("Scenario", 1), 0, 1, 0)
                                       (+) SameSecondHistory,
               executions |-> PointsOf(<<<<20, 20, 0>>>>, FALSE)
                              \o <<SameSecondPoint>>,
               broken |-> FALSE])}

SaveScenarioKinds ==
    {[Failed |-> FALSE, Skipped |-> FALSE, ScenarioItems |-> PassedItems],
     [Failed |-> FALSE, Skipped |-> TRUE, ScenarioItems |-> PassedItems],
     [Failed |-> TRUE, Skipped |-> FALSE, ScenarioItems |-> FailedItems],
     [Failed |-> FALSE, Skipped |-> TRUE, ScenarioItems |-> FailedItems]}

SaveInputs ==
    UNION {[db : SaveDatabases,
            enhanced : {convertToEnhancedSuite(ConvertProtoOf(f))},
            executionID : {NewUUID},
            faults : SUBSET {<<1, j>> : j \in 1..Len(f)}] :
              f \in SeqsUpTo(SaveScenarioKinds, MaxSaveScenarios)}

\* one SaveExecutionData(enhanced, executionID) on the engine of the
\* database
SaveExecutionDataCall ==
    /\ "executionID" \in DOMAIN fnArgs
    /\ fnOut = NoValue
    /\ running = NoValue
    /\ IF fnArgs.db = Nil
       THEN /\ fnOut' = [save |-> SaveWithoutDatabase]
            /\ running' = running
       ELSE /\ running' = NewSave(fnArgs.executionID, fnArgs.faults)
            /\ fnOut' = fnOut
    /\ UNCHANGED <<groupVars, fnArgs, plugin, render, sqlite, others>>

InitSave ==
    /\ env = UnsetEnv
    /\ suite = MakeSuite(<<>>)
    /\ callsLeft = 0
    /\ analyzer = NewAnalyzer(env)
    /\ pc = "idle"
    /\ pos = EndPos
    /\ groups = <<>>
    /\ llmCalls = <<>>
    /\ returned = <<>>
    /\ fnArgs \in SaveInputs
    /\ fnOut = NoValue
    /\ plugin = NoValue
    /\ render = NoValue
    /\ sqlite = SharedFile(fnArgs.db)
    /\ others = OthersOn(fnArgs.db, MaxOtherCalls)
    /\ running = NoValue

NextSave ==
    \/ SaveExecutionDataCall
    \/ SaveExecution
    \/ SaveScenario
    \/ SaveExecutionDataReturn
    \/ OtherSaveExecution
    \/ OtherSaveScenario
    \/ CleanupOldDataCall
    \/ CleanupOldDataDelete
    \/ FileLocked
    \/ FileReleased

SpecSave == InitSave /\ [][NextSave]_vars

\* Inputs of BuildReport: one spec of up to MaxReportScenarios scenarios;
\* no database, a failing one, or one holding up to MaxReportPoints
\* executions with success rates 80 and 90 and a history of "Scenario 1";
\* saving the record of the first scenario may fail.
MaxReportScenarios == 2
MaxReportPoints    == 2

ReportFaults == {{}, {<<1, 1>>}}

ReportDatabases ==
    {Nil, Ptr([scenario_history |-> <<>>, executions |-> <<>>, broken |-> TRUE])}
    \cup {Ptr([scenario_history |-> HistoryBag(HeadingAt("Scenario", 1), runs, runs, 0),
               executions |-> PointsOf(kinds, FALSE), broken |-> FALSE]) :
            kinds \in SeqsUpTo({<<16, 20, 0>>, <<18, 20, 1500>>}, MaxReportPoints),
            runs \in {0, 2}}

\* a run whose only scenario was skipped
SkippedProto ==
    ConvertProtoOf(<<[Failed |-> FALSE, Skipped |-> TRUE,
                      ScenarioItems |-> PassedItems]>>)

ReportProtos ==
    {ProtoSuiteOf(s) :
        s \in SingleSpecSuites(OneStepOutcomes({AssertMsg1, TimeoutMsg}, {PyStack}),
                               MaxReportScenarios)}
    \cup {SkippedProto}

RECURSIVE ScenarioRowsFrom(_, _)
\* the rows of scenario_history of a run of now, from scenario p on
ScenarioRowsFrom(specs, p) ==
    IF p = EndPos THEN EmptyBag
    ELSE SetToBag({HistoryRow(specs[p[1]].Scenarios[p[2]].ScenarioHeading,
                              StatusOf(specs[p[1]].Scenarios[p[2]]), 0)})
         (+) ScenarioRowsFrom(specs, NextPos(specs, p[1], p[2]))

\* variant: the run is saved before the history is read
BuildReportAnalyticsAfterSave ==
    /\ "proto" \in DOMAIN fnArgs
    /\ fnOut = NoValue
    /\ pc = "idle"
    /\ running = NoValue
    /\ \E enhanced \in {convertToEnhancedSuite(fnArgs.proto)} :
       \E saved \in {IF fnArgs.db = Nil THEN Nil
                     ELSE IF sqlite.broken THEN Ptr(sqlite)
                     ELSE Ptr([sqlite EXCEPT
                                  !.executions =
                                      InsertExecution(@, ExecutionPoint(enhanced)),
                                  !.scenario_history =
                                      @ (+) ScenarioRowsFrom(
                                                enhanced.SpecResults,
                                                NextPos(enhanced.SpecResults, 1, 0))])} :
       \E trends \in {GenerateTrends(NewEngine(saved), enhanced)} :
          /\ sqlite' = SharedFile(saved)
          /\ suite' = [SpecResults |-> enhanced.SpecResults]
          /\ IF fnArgs.db = Nil
             THEN /\ fnOut' = [enhanced |->
                                  enhanced @@ [Trends |-> Ptr(trends),
                                               FlakyTests |-> <<>>],
                               queries |-> <<>>]
                  /\ running' = running
                  /\ callsLeft' = 1
             ELSE /\ fnOut' = [enhanced |-> enhanced @@ [Trends |-> Ptr(trends)],
                               queries |-> <<>>]
                  /\ running' = NewDetection(enhanced.SpecResults)
                  /\ callsLeft' = callsLeft
    /\ UNCHANGED <<env, analyzer, pc, pos, groups, llmCalls, returned, fnArgs,
                   plugin, render, others>>

\* BuildReport up to the first query of DetectFlakyTests: the conversion,
\* GenerateTrends with its one SELECT, and "if e.db == nil" of
\* DetectFlakyTests, after which BuildReport goes on to GroupFailures
BuildReportAnalytics ==
    /\ "proto" \in DOMAIN fnArgs
    /\ fnOut = NoValue
    /\ pc = "idle"
    /\ running = NoValue
    /\ \E enhanced \in {convertToEnhancedSuite(fnArgs.proto)} :
       \E trends \in {GenerateTrends(NewEngine(Handle), enhanced)} :
          /\ suite' = [SpecResults |-> enhanced.SpecResults]
          /\ IF fnArgs.db = Nil
             THEN /\ fnOut' = [enhanced |->
                                  enhanced @@ [Trends |-> Ptr(trends),
                                               FlakyTests |-> <<>>],
                               queries |-> <<>>]
                  /\ running' = running
                  /\ callsLeft' = 1
             ELSE /\ fnOut' = [enhanced |-> enhanced @@ [Trends |-> Ptr(trends)],
                               queries |-> <<>>]
                  /\ running' = NewDetection(enhanced.SpecResults)
                  /\ callsLeft' = callsLeft
    /\ UNCHANGED <<env, analyzer, pc, pos, groups, llmCalls, returned, fnArgs,
                   plugin, render, sqlite, others>>

\* "modelFailureGroups[i] = &models.FailureGroup{...}": the fields copied
ModelFailureGroup(fg) ==
    [Signature         |-> fg.Signature,
     ErrorType         |-> fg.ErrorType,
     RootCause         |-> fg.RootCause,
     Count             |-> fg.Count,
     AffectedScenarios |-> fg.AffectedScenarios,
     AffectedSpecs     |-> fg.AffectedSpecs,
     Severity          |-> fg.Severity,
     SuggestedFix      |-> fg.SuggestedFix]

ModelFailureGroups(failureGroups) ==
    SubSeq([i \in 1..Len(failureGroups) |-> ModelFailureGroup(failureGroups[i])],
           1, Len(failureGroups))

\* variant: the save is attempted whether or not there is a database
SaveAttemptedAlways(db) == TRUE

\* "if rb.db != nil"
SaveAttempted(db) == db # Nil

\* BuildReport from the return of GroupFailures to the call of
\* SaveExecutionData, which returns at once without a database
BuildReportInsights ==
    /\ "enhanced" \in DOMAIN fnOut
    /\ "AIInsights" \notin DOMAIN fnOut
    /\ Len(returned) = 1
    /\ pc = "idle"
    /\ running = NoValue
    /\ \E insights \in
             {[ExecutiveSummary |->
                   GenerateExecutiveSummary(analyzer, fnOut.enhanced, returned[1]),
               FailureGroups |-> ModelFailureGroups(returned[1])]} :
          IF ~SaveAttempted(fnArgs.db)
          THEN /\ fnOut' = fnOut @@
                     [AIInsights |-> insights,
                      save |-> [attempted |-> FALSE,
                                result |-> [db |-> fnArgs.db, err |-> Nil]]]
               /\ running' = running
          ELSE IF fnArgs.db = Nil
          THEN /\ fnOut' = fnOut @@
                     [AIInsights |-> insights,
                      save |-> [attempted |-> TRUE,
                                result |-> SaveWithoutDatabase]]
               /\ running' = running
          ELSE /\ fnOut' = fnOut @@ [AIInsights |-> insights]
               /\ \E faults \in ReportFaults :
                     running' = NewSave(NewUUID, faults)
    /\ UNCHANGED <<groupVars, fnArgs, plugin, render, sqlite, others>>

\* the database other processes write to while the report is built: two
\* executions and four runs of "Scenario 1", two of them failed; and the
\* same with a run stored in the second in which this run is converted
SharedReportDatabases ==
    {Ptr([scenario_history |-> HistoryBag(HeadingAt("Scenario", 1), 2, 2, 0),
          executions |-> PointsOf(<<<<16, 20, 0>>, <<18, 20, 1500>>>>, FALSE),
          broken |-> FALSE]),
     Ptr([scenario_history |-> HistoryBag(HeadingAt("Scenario", 1), 2, 2, 0)
                                  (+) SameSecondHistory,
          executions |-> PointsOf(<<<<16, 20, 0>>, <<18, 20, 1500>>>>, FALSE)
                         \o <<SameSecondPoint>>,
          broken |-> FALSE])}

InitBuildReport(databases, calls) ==
    /\ env = UnsetEnv
    /\ suite = MakeSuite(<<>>)
    /\ callsLeft = 0
    /\ analyzer = NewAnalyzer(env)
    /\ pc = "idle"
    /\ pos = EndPos
    /\ groups = <<>>
    /\ llmCalls = <<>>
    /\ returned = <<>>
    /\ fnArgs \in [db : databases, proto : ReportProtos]
    /\ fnOut = NoValue
    /\ plugin = NoValue
    /\ render = NoValue
    /\ sqlite = SharedFile(fnArgs.db)
    /\ others = OthersOn(fnArgs.db, calls)
    /\ running = NoValue

\* every database on a file nothing else writes to, and the shared one
InitReport ==
    \/ InitBuildReport(ReportDatabases, 0)
    \/ InitBuildReport(SharedReportDatabases, MaxOtherCalls)

NextReport ==
    \/ BuildReportAnalytics
    \/ CalculateFlakyScoreQuery
    \/ GetScenarioHistoryQuery
    \/ DetectFlakyTestsReturn
    \/ GroupFailuresCall
    \/ ScanScenario
    \/ GroupFailuresReturn
    \/ BuildReportInsights
    \/ SaveExecution
    \/ SaveScenario
    \/ SaveExecutionDataReturn
    \/ OtherSaveExecution
    \/ OtherSaveScenario
    \/ CleanupOldDataCall
    \/ CleanupOldDataDelete
    \/ FileLocked
    \/ FileReleased

SpecReport == InitReport /\ [][NextReport]_vars

-----------------------------------------------------------------------------
(* pkg/plugin: Plugin.Start, the goroutine it starts, the Kill handler and *)
(* the goroutine Kill starts.  main returns when Start returns, which ends *)
(* the process and every goroutine; a panic ends the process as well.      *)
(* grpc: Serve returns once GracefulStop has run, or when accepting fails; *)
(* a request is accepted only while the server serves.                     *)

MaxKills == 2    \* Kill requests the server receives

ChanOpen   == "open"
ChanClosed == "closed"

NewPlugin ==
    [stopChan |-> ChanOpen,
     server   |-> "nil",       \* "nil", "serving", "stopped"
     start    |-> "init",      \* "init", "wait", "nil" (returned nil), "err"
     serve    |-> "none",      \* "none", "Serve", "close", "done"
     kill     |-> [k \in 1..MaxKills |-> "idle"],
                               \* "idle", "select", "close", "done"
     stops    |-> 0,           \* goroutines about to call GracefulStop
     closes   |-> 0,           \* close(p.stopChan) statements executed
     panicked |-> FALSE,
     exited   |-> FALSE]

Running == plugin # NoValue /\ ~plugin.panicked /\ ~plugin.exited

\* close(p.stopChan): closing a closed channel panics
CloseStopChan(p) ==
    IF p.stopChan = ChanClosed
    THEN [p EXCEPT !.closes = @ + 1, !.panicked = TRUE]
    ELSE [p EXCEPT !.stopChan = ChanClosed, !.closes = @ + 1]

\* Start up to "<-p.stopChan": listening fails and Start returns the error,
\* or the server is created and the serving goroutine started
StartServing ==
    /\ Running
    /\ plugin.start = "init"
    /\ \/ plugin' = [plugin EXCEPT !.start = "err"]
       \/ plugin' = [plugin EXCEPT !.server = "serving", !.serve = "Serve",
                                   !.start = "wait"]
    /\ UNCHANGED <<groupVars, fnVars, render, dbVars>>

\* "<-p.stopChan" receives once the channel is closed; Start returns nil
StartReturns ==
    /\ Running
    /\ plugin.start = "wait"
    /\ plugin.stopChan = ChanClosed
    /\ plugin' = [plugin EXCEPT !.start = "nil"]
    /\ UNCHANGED <<groupVars, fnVars, render, dbVars>>

\* runAsGaugePlugin and main return after Start
ProcessExits ==
    /\ Running
    /\ plugin.start \in {"nil", "err"}
    /\ plugin' = [plugin EXCEPT !.exited = TRUE]
    /\ UNCHANGED <<groupVars, fnVars, render, dbVars>>

\* p.server.Serve(listener) returns nil: the server was stopped
ServeStopped ==
    /\ Running
    /\ plugin.serve = "Serve"
    /\ plugin.server = "stopped"
    /\ plugin' = [plugin EXCEPT !.serve = "close"]
    /\ UNCHANGED <<groupVars, fnVars, render, dbVars>>

\* p.server.Serve(listener) returns an error: accepting failed
ServeFails ==
    /\ Running
    /\ plugin.serve = "Serve"
    /\ plugin.server = "serving"
    /\ plugin' = [plugin EXCEPT !.serve = "close"]
    /\ UNCHANGED <<groupVars, fnVars, render, dbVars>>

\* the serving goroutine's "close(p.stopChan)"
ServeCloses ==
    /\ Running
    /\ plugin.serve = "close"
    /\ plugin' = [CloseStopChan(plugin) EXCEPT !.serve = "done"]
    /\ UNCHANGED <<groupVars, fnVars, render, dbVars>>

\* Kill up to its select: p.server is not nil, the goroutine is started
KillStarts(k) ==
    /\ Running
    /\ plugin.server = "serving"
    /\ plugin.kill[k] = "idle"
    /\ plugin' = [plugin EXCEPT !.kill[k] = "select", !.stops = @ + 1]
    /\ UNCHANGED <<groupVars, fnVars, render, dbVars>>

\* the select of Kill: the receive when the channel is closed, else default
KillSelects(k) ==
    /\ Running
    /\ plugin.kill[k] = "select"
    /\ plugin' = [plugin EXCEPT !.kill[k] = IF plugin.stopChan = ChanClosed
                                            THEN "done" ELSE "close"]
    /\ UNCHANGED <<groupVars, fnVars, render, dbVars>>

\* the "close(p.stopChan)" of the default case, and the return
KillCloses(k) ==
    /\ Running
    /\ plugin.kill[k] = "close"
    /\ plugin' = [CloseStopChan(plugin) EXCEPT !.kill[k] = "done"]
    /\ UNCHANGED <<groupVars, fnVars, render, dbVars>>

\* the goroutine of Kill: p.server.GracefulStop()
GracefulStop ==
    /\ Running
    /\ plugin.stops > 0
    /\ plugin' = [plugin EXCEPT !.stops = @ - 1, !.server = "stopped"]
    /\ UNCHANGED <<groupVars, fnVars, render, dbVars>>

InitPlugin ==
    /\ env = UnsetEnv
    /\ suite = MakeSuite(<<>>)
    /\ callsLeft = 0
    /\ analyzer = NewAnalyzer(env)
    /\ pc = "idle"
    /\ pos = EndPos
    /\ groups = <<>>
    /\ llmCalls = <<>>
    /\ returned = <<>>
    /\ fnArgs = NoValue
    /\ fnOut = NoValue
    /\ plugin = NewPlugin
    /\ render = NoValue
    /\ sqlite = NoValue
    /\ others = NoValue
    /\ running = NoValue

NextPlugin ==
    \/ StartServing
    \/ StartReturns
    \/ ProcessExits
    \/ ServeStopped
    \/ ServeFails
    \/ ServeCloses
    \/ GracefulStop
    \/ \E k \in 1..MaxKills : KillStarts(k) \/ KillSelects(k) \/ KillCloses(k)

SpecPlugin == InitPlugin /\ [][NextPlugin]_vars

\* The scheduler runs every goroutine that can take a step, and the process
\* ends once main can return; nothing makes accepting fail or a Kill
\* request arrive.
SpecPluginLive ==
    /\ SpecPlugin
    /\ WF_vars(StartServing)
    /\ WF_vars(StartReturns)
    /\ WF_vars(ProcessExits)
    /\ WF_vars(ServeStopped)
    /\ WF_vars(ServeCloses)
    /\ WF_vars(GracefulStop)
    /\ \A k \in 1..MaxKills : WF_vars(KillSelects(k)) /\ WF_vars(KillCloses(k))

-----------------------------------------------------------------------------
(* pkg/generator: Generator.renderSpecPages.  One goroutine per spec sends *)
(* to the semaphore channel, renders, sends its error to the errors        *)
(* channel, receives from the semaphore and calls wg.Done; the caller      *)
(* starts the goroutines, waits, closes the errors channel and ranges over *)
(* it.  RenderSpec fails or not for reasons outside the program.           *)

MaxRenderSpecs == 2    \* specs of the suite
MaxConcurrent  == 2    \* largest MaxConcurrentGen of a configuration file

DefaultMaxConcurrentGen == 4

\* MaxConcurrentGen as NewConfig sets it, or as LoadFromFile read it
ConfiguredMaxConcurrentGen == (-1..MaxConcurrent) \cup {DefaultMaxConcurrentGen}

\* the call of renderSpecPages for n specs, after "var wg sync.WaitGroup"
NewRender(n, maxConcurrentGen) ==
    [specs     |-> n,
     capacity  |-> maxConcurrentGen,   \* of the semaphore channel
     main      |-> "make",   \* "make", "loop", "wait", "range", "returned", "panic"
     spawned   |-> 0,        \* goroutines started by the loop
     wg        |-> 0,        \* the WaitGroup counter
     semaphore |-> 0,        \* values in the semaphore channel
     errors    |-> <<>>,     \* values in the errors channel (capacity n)
     closed    |-> FALSE,    \* close(errors) done
     go        |-> [i \in 1..n |-> "none"],
                   \* "none", "acquire", "render", "send", "release", "done", "end"
     failed    |-> {},       \* specs whose RenderSpec returned an error
     firstError |-> 0]       \* 0 is nil, i the error of spec i

Rendering == render # NoValue

\* make(chan error, len(...)) and make(chan struct{}, MaxConcurrentGen): a
\* negative capacity panics
MakeChannels ==
    /\ Rendering
    /\ render.main = "make"
    /\ render' = [render EXCEPT !.main = IF render.capacity < 0 THEN "panic"
                                         ELSE "loop"]
    /\ UNCHANGED <<groupVars, fnVars, plugin, dbVars>>

\* one round of the loop: wg.Add(1) and the go statement
SpawnRender ==
    /\ Rendering
    /\ render.main = "loop"
    /\ render.spawned < render.specs
    /\ render' = [render EXCEPT !.spawned = @ + 1, !.wg = @ + 1,
                                !.go[render.spawned + 1] = "acquire"]
    /\ UNCHANGED <<groupVars, fnVars, plugin, dbVars>>

\* the loop is over; wg.Wait() is called
LoopEnds ==
    /\ Rendering
    /\ render.main = "loop"
    /\ render.spawned = render.specs
    /\ render' = [render EXCEPT !.main = "wait"]
    /\ UNCHANGED <<groupVars, fnVars, plugin, dbVars>>

\* wg.Wait() returns when the counter is 0; close(errors)
WaitReturns ==
    /\ Rendering
    /\ render.main = "wait"
    /\ render.wg = 0
    /\ render' = [render EXCEPT !.main = "range", !.closed = TRUE]
    /\ UNCHANGED <<groupVars, fnVars, plugin, dbVars>>

\* one round of "for err := range errors"
RangeReceives ==
    /\ Rendering
    /\ render.main = "range"
    /\ Len(render.errors) > 0
    /\ render' = [render EXCEPT !.errors = Tail(@),
                                !.firstError = IF @ = 0 THEN Head(render.errors)
                                               ELSE @]
    /\ UNCHANGED <<groupVars, fnVars, plugin, dbVars>>

\* the range ends on the closed and empty channel; return firstError
RangeEnds ==
    /\ Rendering
    /\ render.main = "range"
    /\ Len(render.errors) = 0
    /\ render.closed
    /\ render' = [render EXCEPT !.main = "returned"]
    /\ UNCHANGED <<groupVars, fnVars, plugin, dbVars>>

\* "semaphore <- struct{}{}": the send completes when the buffer has room;
\* nothing receives from the channel before a send has completed
Acquire(i) ==
    /\ Rendering
    /\ i \in 1..render.specs
    /\ render.go[i] = "acquire"
    /\ render.semaphore < render.capacity
    /\ render' = [render EXCEPT !.semaphore = @ + 1, !.go[i] = "render"]
    /\ UNCHANGED <<groupVars, fnVars, plugin, dbVars>>

\* g.renderer.RenderSpec returns nil or an error
RenderSpec(i) ==
    /\ Rendering
    /\ i \in 1..render.specs
    /\ render.go[i] = "render"
    /\ \/ render' = [render EXCEPT !.go[i] = "release"]
       \/ render' = [render EXCEPT !.go[i] = "send", !.failed = @ \cup {i}]
    /\ UNCHANGED <<groupVars, fnVars, plugin, dbVars>>

\* "errors <- err": the send completes when the buffer has room
SendError(i) ==
    /\ Rendering
    /\ i \in 1..render.specs
    /\ render.go[i] = "send"
    /\ Len(render.errors) < render.specs
    /\ render' = [render EXCEPT !.errors = Append(@, i), !.go[i] = "release"]
    /\ UNCHANGED <<groupVars, fnVars, plugin, dbVars>>

\* the deferred "<-semaphore"
Release(i) ==
    /\ Rendering
    /\ i \in 1..render.specs
    /\ render.go[i] = "release"
    /\ render.semaphore > 0
    /\ render' = [render EXCEPT !.semaphore = @ - 1, !.go[i] = "done"]
    /\ UNCHANGED <<groupVars, fnVars, plugin, dbVars>>

\* the deferred wg.Done()
WgDone(i) ==
    /\ Rendering
    /\ i \in 1..render.specs
    /\ render.go[i] = "done"
    /\ render' = [render EXCEPT !.wg = @ - 1, !.go[i] = "end"]
    /\ UNCHANGED <<groupVars, fnVars, plugin, dbVars>>

InitRender ==
    /\ env = UnsetEnv
    /\ suite = MakeSuite(<<>>)
    /\ callsLeft = 0
    /\ analyzer = NewAnalyzer(env)
    /\ pc = "idle"
    /\ pos = EndPos
    /\ groups = <<>>
    /\ llmCalls = <<>>
    /\ returned = <<>>
    /\ fnArgs = NoValue
    /\ fnOut = NoValue
    /\ plugin = NoValue
    /\ render \in {NewRender(n, c) : n \in 0..MaxRenderSpecs,
                                     c \in ConfiguredMaxConcurrentGen}
    /\ sqlite = NoValue
    /\ others = NoValue
    /\ running = NoValue

NextRender ==
    \/ MakeChannels
    \/ SpawnRender
    \/ LoopEnds
    \/ WaitReturns
    \/ RangeReceives
    \/ RangeEnds
    \/ \E i \in 1..MaxRenderSpecs : Acquire(i)
    \/ \E i \in 1..MaxRenderSpecs : RenderSpec(i)
    \/ \E i \in 1..MaxRenderSpecs : SendError(i)
    \/ \E i \in 1..MaxRenderSpecs : Release(i)
    \/ \E i \in 1..MaxRenderSpecs : WgDone(i)

SpecRender == InitRender /\ [][NextRender]_vars

\* The scheduler runs the caller and every goroutine that can take a step.
SpecRenderLive ==
    /\ SpecRender
    /\ WF_vars(MakeChannels)
    /\ WF_vars(SpawnRender)
    /\ WF_vars(LoopEnds)
    /\ WF_vars(WaitReturns)
    /\ WF_vars(RangeReceives)
    /\ WF_vars(RangeEnds)
    /\ \A i \in 1..MaxRenderSpecs :
          /\ WF_vars(Acquire(i))
          /\ WF_vars(RenderSpec(i))
          /\ WF_vars(SendError(i))
          /\ WF_vars(Release(i))
          /\ WF_vars(WgDone(i))

-----------------------------------------------------------------------------
(* Properties of GroupFailures.                                            *)

\* a GroupFailures call has returned and no other call is running
Done == pc = "idle" /\ Len(returned) > 0
LastReturned == returned[Len(returned)]

ScenarioPositions ==
    UNION {{<<si, ci>> : ci \in DOMAIN suite.SpecResults[si].Scenarios} :
              si \in DOMAIN suite.SpecResults}
ScenarioAt(p) == suite.SpecResults[p[1]].Scenarios[p[2]]

\* index of the first failed step of a scenario, 0 when no step failed
FirstFailedIndex(scenario) ==
    IF \E i \in DOMAIN scenario.Steps : scenario.Steps[i].Failed
    THEN CHOOSE i \in DOMAIN scenario.Steps :
            /\ scenario.Steps[i].Failed
            /\ \A j \in 1..(i - 1) : ~scenario.Steps[j].Failed
    ELSE 0

\* the scenarios that count: marked failed, first failed step has a message
Contributes(p) ==
    LET scenario == ScenarioAt(p)
        i == FirstFailedIndex(scenario)
    IN scenario.Failed /\ i > 0 /\ scenario.Steps[i].ErrorMessage # ""
Contributors == {p \in ScenarioPositions : Contributes(p)}

FailedStepOf(p) == ScenarioAt(p).Steps[FirstFailedIndex(ScenarioAt(p))]
\* <<error kind, normalized message>> of a contributing scenario
KeyOf(p) ==
    <<ClassOf(FailedStepOf(p).ErrorMessage, FailedStepOf(p).StackTrace),
      CleanOf(FailedStepOf(p).ErrorMessage)>>
GroupKey(group) == <<group.ErrorType, CleanOf(group.ErrorMessage)>>

\* C1: when GroupFailures has returned, every failed scenario whose first
\* failed step has a message is counted in exactly one returned group, the
\* group of its <<kind, normalized message>>, and that group's Count is the
\* number of such scenarios with the same kind and normalized message.
C1_OneGroupPerKey ==
    Done =>
        \A p \in Contributors :
            LET same  == {q \in Contributors : KeyOf(q) = KeyOf(p)}
                found == {i \in DOMAIN LastReturned :
                              GroupKey(LastReturned[i]) = KeyOf(p)}
            IN /\ Cardinality(found) = 1
               /\ \A i \in found : LastReturned[i].Count = Cardinality(same)

\* two scenarios with different messages ended up in one group of Count 2
C1_Witness ==
    /\ Done
    /\ \E i \in DOMAIN LastReturned :
          /\ LastReturned[i].Count = 2
          /\ \E p, q \in Contributors :
                /\ FailedStepOf(p).ErrorMessage = AssertMsg1
                /\ FailedStepOf(q).ErrorMessage = AssertMsg2
                /\ GroupKey(LastReturned[i]) = KeyOf(p)

SeverityPolicy(kind, count) ==
    IF count >= 3 THEN "critical"
    ELSE CASE kind = ErrorTypeDatabase -> "critical"
           [] kind \in {ErrorTypeTimeout, ErrorTypeNetwork,
                        ErrorTypeNullPointer} -> "high"
           [] kind = ErrorTypeAssertion ->
                  IF count = 2 THEN "high" ELSE "medium"
           [] OTHER -> "medium"

MaxCount == 4

\* C5: every returned group carries the severity the policy gives for its
\* kind and its final Count (>= 3 critical; else Database critical; Timeout,
\* Network, NullReference high; Assertion high at 2 and medium at 1; others
\* medium), and calculateSeverity is that policy for every kind and count.
C5_SeverityOfFinalCount ==
    /\ \A kind \in ErrorTypes, n \in 1..MaxCount :
          calculateSeverity(kind, n) = SeverityPolicy(kind, n)
    /\ Done =>
          \A i \in DOMAIN LastReturned :
              /\ LastReturned[i].Severity =
                    SeverityPolicy(LastReturned[i].ErrorType, LastReturned[i].Count)
              /\ LastReturned[i].Count =
                    Cardinality({p \in Contributors :
                                    KeyOf(p) = GroupKey(LastReturned[i])})

\* an Assertion group created as medium was returned with another severity
\* after more scenarios joined it
C5_Witness ==
    /\ Done
    /\ \E i \in DOMAIN LastReturned :
          /\ LastReturned[i].ErrorType = ErrorTypeAssertion
          /\ LastReturned[i].Count >= 2
          /\ LastReturned[i].Severity # calculateSeverity(ErrorTypeAssertion, 1)

-----------------------------------------------------------------------------
(* Properties of the LLM fallback.                                         *)

SupportedProviders ==
    {ProviderOpenAI, ProviderClaude, ProviderGemini, ProviderLocal}

\* what went wrong in the recorded LLM call, seen from outside the client
CallFailed(call) ==
    \/ call.x.transport
    \/ call.x.status # 200
    \/ ~call.x.decodes
    \/ call.x.text = ""
    \/ (~call.x.reads
          /\ Deref(analyzer.llmClient).config.Provider = ProviderGemini)
    \/ call.result.err # Nil
    \/ Deref(analyzer.llmClient).config.Provider \notin SupportedProviders

\* C2: when GroupFailures has returned with an LLM client present, a group
\* whose LLM call failed in any way (transport error or timeout, non-200
\* status, malformed body, a body Gemini's io.ReadAll cannot read to its
\* end, unsupported provider, empty text, any error)
\* carries the template of its kind; the LLM text is the fix only when the
\* call gave no error and a non-empty text; no fix is empty and every
\* contributing scenario still has its group.
C2_FallbackOnEveryLLMFailure ==
    Done =>
        /\ \A i \in DOMAIN LastReturned :
              LET group == LastReturned[i]
                  call  == llmCalls[group.Signature]
              IN /\ group.SuggestedFix # ""
                 /\ call # Nil =>
                       /\ CallFailed(Deref(call)) =>
                             group.SuggestedFix =
                                 getPatternBasedSuggestion(group.ErrorType)
                       /\ group.SuggestedFix \in
                             {getPatternBasedSuggestion(group.ErrorType),
                              Deref(call).x.text}
                       /\ group.SuggestedFix = Deref(call).x.text =>
                             /\ Deref(call).result.err = Nil
                             /\ Deref(call).result.text = Deref(call).x.text
                             /\ Deref(call).x.text # ""
        /\ \A p \in Contributors :
              \E i \in DOMAIN LastReturned : GroupKey(LastReturned[i]) = KeyOf(p)

\* one group's LLM call failed and it got the template, while another group
\* of the same call got the LLM's text
C2_Witness ==
    /\ Done
    /\ \E i, j \in DOMAIN LastReturned :
          /\ llmCalls[LastReturned[i].Signature] # Nil
          /\ Deref(llmCalls[LastReturned[i].Signature]).result.err # Nil
          /\ LastReturned[i].SuggestedFix =
                getPatternBasedSuggestion(LastReturned[i].ErrorType)
          /\ llmCalls[LastReturned[j].Signature] # Nil
          /\ LastReturned[j].SuggestedFix = LLMText

LLMDisabled ==
    \/ env.GAUGE_AI_ENABLED # "true"
    \/ env.GAUGE_AI_PROVIDER \in {"", ProviderNone}

\* C3: with GAUGE_AI_ENABLED other than "true", or the provider none or
\* unset, the analyzer has no LLM client, useRealAI is false, no LLM call is
\* made and every group, while built and when returned, carries exactly the
\* template of its kind.
C3_DisabledGivesTemplates ==
    LLMDisabled =>
        /\ analyzer.llmClient = Nil
        /\ ~analyzer.useRealAI
        /\ \A sig \in DOMAIN groups :
              /\ llmCalls[sig] = Nil
              /\ groups[sig].SuggestedFix =
                    getPatternBasedSuggestion(groups[sig].ErrorType)
        /\ \A r \in DOMAIN returned : \A i \in DOMAIN returned[r] :
              returned[r][i].SuggestedFix =
                  getPatternBasedSuggestion(returned[r][i].ErrorType)

\* enabled but provider "none": two groups of different kinds were returned
C3_Witness ==
    /\ Done
    /\ env.GAUGE_AI_ENABLED = "true"
    /\ env.GAUGE_AI_PROVIDER = ProviderNone
    /\ Len(LastReturned) = 2
    /\ LastReturned[1].SuggestedFix # LastReturned[2].SuggestedFix

-----------------------------------------------------------------------------
(* Order of the returned list.                                             *)

SignaturesOf(list) == [i \in DOMAIN list |-> list[i].Signature]

\* C4: any two GroupFailures calls on the same suite return their groups in
\* the same sequence of signatures.
C4_SameOrderOnEveryRun ==
    \A r1, r2 \in DOMAIN returned :
        SignaturesOf(returned[r1]) = SignaturesOf(returned[r2])

-----------------------------------------------------------------------------
(* First failed step.                                                      *)

HoldersOf(p) ==
    {i \in DOMAIN LastReturned :
        contains(LastReturned[i].AffectedScenarios, ScenarioAt(p).ScenarioHeading)}

\* C10: when GroupFailures has returned, a scenario marked failed whose first
\* failed step has a message is listed in exactly one group, the one whose
\* kind and signature come from that step's message and stack trace; every
\* other scenario (not marked failed, no failed step, or first failed step
\* without a message, whatever the later steps hold) is listed in no group.
C10_FirstFailedStepOnly ==
    Done =>
        \A p \in ScenarioPositions :
            IF Contributes(p)
            THEN \E i \in DOMAIN LastReturned :
                    /\ HoldersOf(p) = {i}
                    /\ LastReturned[i].ErrorType =
                          ClassifyError(FailedStepOf(p).ErrorMessage,
                                        FailedStepOf(p).StackTrace)
                    /\ LastReturned[i].Signature =
                          SignatureOf(FailedStepOf(p).ErrorMessage,
                                      LastReturned[i].ErrorType)
                    /\ LastReturned[i].Count =
                          Cardinality({q \in Contributors : KeyOf(q) = KeyOf(p)})
            ELSE HoldersOf(p) = {}

\* a scenario whose first failed step has no message while its second one
\* has was skipped, and a scenario failing with that same message was grouped
C10_Witness ==
    /\ Done
    /\ \E p, q \in ScenarioPositions :
          /\ ScenarioAt(p).Failed
          /\ Len(ScenarioAt(p).Steps) = 2
          /\ ScenarioAt(p).Steps[1].Failed
          /\ ScenarioAt(p).Steps[1].ErrorMessage = ""
          /\ ScenarioAt(p).Steps[2].Failed
          /\ ScenarioAt(p).Steps[2].ErrorMessage = PlainMsg
          /\ HoldersOf(p) = {}
          /\ Contributes(q)
          /\ FailedStepOf(q).ErrorMessage = PlainMsg
          /\ \E i \in HoldersOf(q) : LastReturned[i].Count = 1

-----------------------------------------------------------------------------
(* Properties of ClassifyError.                                            *)

\* the keyword sets in their documented order
KindOrder ==
    <<<<ErrorTypeAssertion,
        {"assertion", "assert", "expected", "actual", "should be", "must be",
         "equals", "not equal"}>>,
      <<ErrorTypeTimeout, {"timeout", "timed out", "deadline exceeded"}>>,
      <<ErrorTypeNetwork,
        {"connection refused", "network", "socket", "http",
         "connection reset", "connection closed", "dns"}>>,
      <<ErrorTypeNullPointer, {"null", "nil", "none"}>>,
      <<ErrorTypeFileSystem,
        {"file not found", "no such file", "permission denied", "directory",
         "path"}>>,
      <<ErrorTypeDatabase,
        {"database", "sql", "query", "transaction", "duplicate key",
         "constraint"}>>,
      <<ErrorTypeEnvironment,
        {"environment", "config", "configuration", "property",
         "variable not set"}>>>>

MatchesSet(text, k) == \E w \in KindOrder[k][2] : StrContains(text, w)

FirstMatch(text) ==
    IF \E k \in DOMAIN KindOrder : MatchesSet(text, k)
    THEN KindOrder[CHOOSE k \in DOMAIN KindOrder :
                      /\ MatchesSet(text, k)
                      /\ \A j \in 1..(k - 1) : ~MatchesSet(text, j)][1]
    ELSE ErrorTypeUnknown

\* C6: ClassifyError returns the kind of the first keyword set, in the order
\* Assertion, Timeout, Network, NullReference, FileSystem, Database,
\* Environment, that has a keyword in the lower-cased "message stack", else
\* Unknown; a text with both "expected" and "timeout" is Assertion; and the
\* result is the same for the upper-cased and the lower-cased arguments.
C6_FirstMatchingSetWins ==
    fnOut # NoValue =>
        LET text == ToLower(fnArgs.errorMsg \o " " \o fnArgs.stackTrace)
        IN /\ Deref(fnOut) = FirstMatch(text)
           /\ (StrContains(text, "expected") /\ StrContains(text, "timeout"))
                 => Deref(fnOut) = ErrorTypeAssertion
           /\ ClassifyError(ToUpper(fnArgs.errorMsg), ToUpper(fnArgs.stackTrace))
                 = Deref(fnOut)
           /\ ClassifyError(ToLower(fnArgs.errorMsg), ToLower(fnArgs.stackTrace))
                 = Deref(fnOut)

\* a mixed-case message with keywords of the Assertion and Timeout sets
C6_Witness ==
    /\ fnOut = Ptr(ErrorTypeAssertion)
    /\ fnArgs.errorMsg = "TIMEOUT Expected"
    /\ fnArgs.stackTrace = ""

-----------------------------------------------------------------------------
(* Properties of GenerateErrorSignature.                                   *)

RECURSIVE DropDigits(_)
DropDigits(s) ==
    IF Len(s) > 0 /\ IsDigit(CharAt(s, 1)) THEN DropDigits(SubSeq(s, 2, Len(s)))
    ELSE s

RECURSIVE DifferOnlyInDigitRuns(_, _)
\* t is s with each maximal digit run replaced by a non-empty digit run
DifferOnlyInDigitRuns(s, t) ==
    IF Len(s) = 0 \/ Len(t) = 0 THEN Len(s) = Len(t)
    ELSE IF IsDigit(CharAt(s, 1)) \/ IsDigit(CharAt(t, 1))
    THEN /\ IsDigit(CharAt(s, 1))
         /\ IsDigit(CharAt(t, 1))
         /\ DifferOnlyInDigitRuns(DropDigits(s), DropDigits(t))
    ELSE /\ CharAt(s, 1) = CharAt(t, 1)
         /\ DifferOnlyInDigitRuns(SubSeq(s, 2, Len(s)), SubSeq(t, 2, Len(t)))

\* C7: two messages that differ only in their runs of decimal digits get the
\* same signature when the kind is the same.
C7_DigitRunsIgnored ==
    (/\ fnOut # NoValue
     /\ fnArgs.kind1 = fnArgs.kind2
     /\ DifferOnlyInDigitRuns(fnArgs.msg1, fnArgs.msg2))
        => Deref(fnOut).sig1 = Deref(fnOut).sig2

\* the two messages of the test, digit runs of different lengths
C7_Witness ==
    /\ fnOut # NoValue
    /\ fnArgs.msg1 = AssertMsg1
    /\ fnArgs.msg2 = AssertMsg2
    /\ fnArgs.kind1 = fnArgs.kind2
    /\ Deref(fnOut).sig1 = Deref(fnOut).sig2

IsCanonicalUUID(u) ==
    /\ Len(u) = 36
    /\ \A k \in 1..36 :
          IF k \in {9, 14, 19, 24} THEN CharAt(u, k) = "-"
          ELSE IsLowerHex(CharAt(u, k))

\* s and t are the same text around one canonical UUID each
DifferOnlyInUUID(s, t) ==
    /\ Len(s) = Len(t)
    /\ \E i \in 1..(Len(s) - 35) :
          /\ SubSeq(s, 1, i - 1) = SubSeq(t, 1, i - 1)
          /\ IsCanonicalUUID(SubSeq(s, i, i + 35))
          /\ IsCanonicalUUID(SubSeq(t, i, i + 35))
          /\ SubSeq(s, i + 36, Len(s)) = SubSeq(t, i + 36, Len(t))

\* C8: two messages that differ only in an embedded canonical UUID get the
\* same signature when the kind is the same.
C8_UUIDsIgnored ==
    (/\ fnOut # NoValue
     /\ fnArgs.kind1 = fnArgs.kind2
     /\ DifferOnlyInUUID(fnArgs.msg1, fnArgs.msg2))
        => Deref(fnOut).sig1 = Deref(fnOut).sig2

\* C9: equal normalized messages with equal kinds get the same signature,
\* and one message with two different kinds gets two different signatures.
C9_SignatureOfMessageAndKind ==
    fnOut # NoValue =>
        /\ (/\ CleanMessage(fnArgs.msg1) = CleanMessage(fnArgs.msg2)
            /\ fnArgs.kind1 = fnArgs.kind2)
              => Deref(fnOut).sig1 = Deref(fnOut).sig2
        /\ (fnArgs.msg1 = fnArgs.msg2 /\ fnArgs.kind1 # fnArgs.kind2)
              => Deref(fnOut).sig1 # Deref(fnOut).sig2

\* one message hashed with two kinds
C9_Witness ==
    /\ fnOut # NoValue
    /\ fnArgs.msg1 = fnArgs.msg2
    /\ fnArgs.kind1 = ErrorTypeAssertion
    /\ fnArgs.kind2 = ErrorTypeTimeout
    /\ Deref(fnOut).sig1 # Deref(fnOut).sig2

-----------------------------------------------------------------------------
(* Counts and affected lists of the groups.                                *)

RECURSIVE SumOfCounts(_)
SumOfCounts(list) ==
    IF Len(list) = 0 THEN 0 ELSE list[1].Count + SumOfCounts(Tail(list))

NoDuplicates(list) ==
    \A i, j \in DOMAIN list : i # j => list[i] # list[j]

FailedScenarios == {p \in ScenarioPositions : ScenarioAt(p).Failed}

\* C11: when GroupFailures has returned, every group has Count equal to the
\* length of AffectedScenarios and at least 1, AffectedSpecs is non-empty
\* and holds no heading twice, and the Counts add up to the number of failed
\* scenarios whose first failed step has a message, which is at most the
\* number of failed scenarios.
C11_CountsAndAffectedLists ==
    Done =>
        /\ \A i \in DOMAIN LastReturned :
              /\ LastReturned[i].Count = Len(LastReturned[i].AffectedScenarios)
              /\ LastReturned[i].Count >= 1
              /\ Len(LastReturned[i].AffectedSpecs) >= 1
              /\ NoDuplicates(LastReturned[i].AffectedSpecs)
        /\ SumOfCounts(LastReturned) = Cardinality(Contributors)
        /\ SumOfCounts(LastReturned) <= Cardinality(FailedScenarios)

\* a group of three occurrences in two specs: a scenario heading is listed
\* twice, each spec heading once, and a failed scenario without a message
\* is counted nowhere
C11_Witness ==
    /\ Done
    /\ Cardinality(FailedScenarios) > Cardinality(Contributors)
    /\ \E i \in DOMAIN LastReturned :
          /\ LastReturned[i].Count = 3
          /\ ~NoDuplicates(LastReturned[i].AffectedScenarios)
          /\ Len(LastReturned[i].AffectedSpecs) = 2

-----------------------------------------------------------------------------
(* Failure modes of the provider calls.                                    *)

\* what the exchange x is, seen from outside the provider call
Unreachable(x)   == x.transport
Non2xx(x)        == ~x.transport /\ x.status \notin 200..299
Malformed(x)     == ~x.transport /\ x.status = StatusOK /\ ~x.decodes
EmptyContent(x)  == ~x.transport /\ x.status = StatusOK /\ x.decodes /\ x.text = ""

\* C12: every provider call whose exchange is an unreachable endpoint, a
\* non-2xx response, a malformed body or a well-formed response with empty
\* content text returns a non-nil error.
C12_EveryFailureModeIsAnError ==
    \A signature \in DOMAIN llmCalls :
        llmCalls[signature] # Nil =>
            LET call == Deref(llmCalls[signature])
            IN (Unreachable(call.x) \/ Non2xx(call.x) \/ Malformed(call.x)
                    \/ EmptyContent(call.x))
                  => call.result.err # Nil

-----------------------------------------------------------------------------
(* The client constructor.                                                 *)

NoClientExpected(config) ==
    \/ config = Nil
    \/ ~Deref(config).Enabled
    \/ Deref(config).Provider = ProviderNone

\* C13: NewLLMClient returns nil exactly when the configuration is nil, not
\* enabled or of provider none; every other configuration gets a client
\* holding it, an empty API key included, and a client of an unrecognized
\* provider answers every call with the error "unsupported provider".
C13_NilClientExactlyWhenOff ==
    ("config" \in DOMAIN fnArgs /\ fnOut # NoValue) =>
        /\ Deref(fnOut).client = Nil <=> NoClientExpected(fnArgs.config)
        /\ Deref(fnOut).client # Nil =>
              Deref(Deref(fnOut).client).config = Deref(fnArgs.config)
        /\ ("result" \in DOMAIN Deref(fnOut) /\ Deref(fnOut).client # Nil
               /\ Deref(fnArgs.config).Provider \notin SupportedProviders) =>
              Deref(fnOut).result = LLMResult("", Ptr("unsupported provider"))

\* an enabled OpenAI configuration without API key got a client and the
\* call on it went through
C13_Witness ==
    /\ "config" \in DOMAIN fnArgs
    /\ fnArgs.config # Nil
    /\ Deref(fnArgs.config).Enabled
    /\ Deref(fnArgs.config).Provider = ProviderOpenAI
    /\ Deref(fnArgs.config).APIKey = ""
    /\ fnOut # NoValue
    /\ Deref(fnOut).client # Nil
    /\ "result" \in DOMAIN Deref(fnOut)
    /\ Deref(fnOut).result = LLMResult(LLMText, Nil)

-----------------------------------------------------------------------------
(* Flaky-test detection.                                                   *)

\* the runs and the failed runs of a scenario name in the 30-day window,
\* counted on the database the call was given
RunsInWindow(name) ==
    LET rows == Deref(fnArgs.db).scenario_history
    IN BagCardinality([r \in {r \in DOMAIN rows :
                                 r.scenario_name = name /\ r.days <= WindowDays}
                          |-> rows[r]])
FailedInWindow(name) ==
    LET rows == Deref(fnArgs.db).scenario_history
    IN BagCardinality([r \in {r \in DOMAIN rows :
                                 /\ r.scenario_name = name
                                 /\ r.days <= WindowDays
                                 /\ r.status = "failed"}
                          |-> rows[r]])

AbsInt(n) == IF n < 0 THEN -n ELSE n

\* 1 - 2 * |failed / total - 1/2| compared with 3/10 in exact arithmetic:
\* the score is (total - |2 * failed - total|) / total
ScoreAboveThreshold(failed, total) ==
    10 * (total - AbsInt(2 * failed - total)) > 3 * total
ScoreAtThreshold(failed, total) ==
    10 * (total - AbsInt(2 * failed - total)) = 3 * total

Emitted(name) ==
    \E i \in DOMAIN fnOut.flakyTests : fnOut.flakyTests[i].ScenarioName = name

DetectFlakyTestsReturned ==
    /\ "db" \in DOMAIN fnArgs
    /\ fnArgs.db # Nil
    /\ "flakyTests" \in DOMAIN fnOut

\* what the score query of the returned call read for the scenario name
ScoreRead(name) ==
    CHOOSE read \in {fnOut.queries[i] : i \in DOMAIN fnOut.queries} :
        read.query = "CalculateFlakyScore" /\ read.scenario_name = name

\* C14: DetectFlakyTests emits a FlakyTest for a scenario of the current
\* run exactly when its score query succeeds, finds at least 3 runs of the
\* name in the window and the score 1 - 2 * |failedRuns / totalRuns - 0.5|
\* of these runs is greater than 0.3; fewer than 3 runs, or a score of
\* exactly 0.3, are not emitted.  On a file nothing else writes to the
\* runs found are those the database held when the call began.
C14_FlakyIffScoreAboveThreshold ==
    DetectFlakyTestsReturned =>
        \A p \in ScenarioPositions :
            LET name == ScenarioAt(p).ScenarioHeading
                read == ScoreRead(name)
            IN /\ Emitted(name) <=>
                     /\ ~read.failed
                     /\ read.totalRuns >= MinRuns
                     /\ ScoreAboveThreshold(read.failedRuns, read.totalRuns)
               /\ (Quiet /\ ~read.failed) =>
                     /\ read.totalRuns = RunsInWindow(name)
                     /\ read.failedRuns = FailedInWindow(name)

\* the score of every failed / total the inputs hold
RunCounts == {ft \in (0..MaxRuns) \X (MinRuns..MaxRuns) : ft[1] <= ft[2]}
ScoreTable == [ft \in RunCounts |-> FlakyScore(ft[1], ft[2])]

\* |f1 / t1 - 1/2| < |f2 / t2 - 1/2| in exact arithmetic
CloserToHalf(ft1, ft2) ==
    AbsInt(2 * ft1[1] - ft1[2]) * ft2[2] < AbsInt(2 * ft2[1] - ft2[2]) * ft1[2]

ScoreReturned ==
    /\ "db" \in DOMAIN fnArgs
    /\ "score" \in DOMAIN fnOut
    /\ fnOut.score.err = Nil
    /\ fnOut.scoreRead.totalRuns >= MinRuns

\* C15: for totalRuns >= 3 the flaky score is 1.0 at a failure rate of 0.5,
\* 0.0 at 0 and at 1, lies in [0, 1], is the same for failedRuns and for
\* totalRuns - failedRuns, and is smaller the farther the failure rate is
\* from 0.5.
C15_ScoreShape ==
    ScoreReturned =>
        LET total  == fnOut.scoreRead.totalRuns
            failed == fnOut.scoreRead.failedRuns
            score  == fnOut.score.score
        IN /\ 2 * failed = total => score = Float64One
           /\ failed \in {0, total} => score = Float64Zero
           /\ ~Float64Less(Float64One, score)
           /\ score = ScoreTable[<<total - failed, total>>]
           /\ \A ft \in RunCounts :
                 CloserToHalf(<<failed, total>>, ft) =>
                     Float64Less(ScoreTable[ft], score)

-----------------------------------------------------------------------------
(* Trend data.                                                             *)

\* the executions GetTrendData retrieves from the database of the call
RetrievedPoints ==
    IF fnArgs.db = Nil \/ Deref(fnArgs.db).broken THEN <<>>
    ELSE SelectSeq(Deref(fnArgs.db).executions,
                   LAMBDA point : point.Timestamp <= WindowDays)

\* a - b > 5 on the exact values of the float64 a and b
ExactlyAboveFive(a, b) == FixLess(b, a) /\ FixLess(Float64Five, FixSub(a, b))

ExpectedQualityTrend(last, previous) ==
    IF ExactlyAboveFive(last.SuccessRate, previous.SuccessRate) THEN "improving"
    ELSE IF ExactlyAboveFive(previous.SuccessRate, last.SuccessRate)
    THEN "degrading"
    ELSE "stable"

GenerateTrendsReturned == "db" \in DOMAIN fnArgs /\ "trendData" \in DOMAIN fnOut

\* C17: GenerateTrends returns a prediction exactly when at least 2 points
\* were retrieved; its QualityTrend is improving when the last success rate
\* exceeds the one before by more than 5, degrading when it is lower by more
\* than 5, stable otherwise; the predicted run repeats the last point's
\* success rate and duration with confidence 0.7; the three series follow
\* the retrieved points one to one.
C17_PredictionFromLastTwoPoints ==
    GenerateTrendsReturned =>
        LET points == RetrievedPoints
            n      == Len(points)
            data   == fnOut.trendData
        IN /\ (data.Predictions # Nil) <=> (n >= 2)
           /\ n >= 2 =>
                 /\ Deref(data.Predictions).QualityTrend
                       = ExpectedQualityTrend(points[n], points[n - 1])
                 /\ Deref(data.Predictions).NextRunPrediction
                       = [PredictedSuccessRate |-> points[n].SuccessRate,
                          PredictedDuration |-> points[n].Duration * NanosPerMilli,
                          Confidence |-> Float64Of(7, 10)]
           /\ Len(data.HistoricalRuns) = n
           /\ Len(data.SuccessRateTrend) = n
           /\ Len(data.ExecutionTimeTrend) = n
           /\ \A i \in 1..n :
                 /\ data.HistoricalRuns[i].SuccessRate = points[i].SuccessRate
                 /\ data.HistoricalRuns[i].ExecutionTime
                       = points[i].Duration * NanosPerMilli
                 /\ data.HistoricalRuns[i].PassedCount = points[i].Passed
                 /\ data.SuccessRateTrend[i] = points[i].SuccessRate
                 /\ data.ExecutionTimeTrend[i] = points[i].Duration * NanosPerMilli

\* three points in the window after one before it: the last two differ by
\* exactly 5 and the trend is stable
C17_Witness ==
    /\ GenerateTrendsReturned
    /\ fnArgs.db # Nil
    /\ Len(Deref(fnArgs.db).executions) = 4
    /\ Len(fnOut.trendData.HistoricalRuns) = 3
    /\ fnOut.trendData.SuccessRateTrend[2] = Float64Of(85, 1)
    /\ fnOut.trendData.SuccessRateTrend[3] = Float64Of(90, 1)
    /\ fnOut.trendData.Predictions # Nil
    /\ Deref(fnOut.trendData.Predictions).QualityTrend = "stable"

-----------------------------------------------------------------------------
(* The executive summary.                                                  *)

SummaryReturned == "enhanced" \in DOMAIN fnArgs /\ "summary" \in DOMAIN fnOut

HealthRank ==
    ("Poor" :> 0) @@ ("Fair" :> 1) @@ ("Good" :> 2) @@ ("Excellent" :> 3)

\* the documented boundary values
HealthExamples ==
    (Float64Of(950, 10) :> "Excellent") @@ (Float64Of(949, 10) :> "Good")
    @@ (Float64Of(850, 10) :> "Good") @@ (Float64Of(849, 10) :> "Fair")
    @@ (Float64Of(700, 10) :> "Fair") @@ (Float64Of(699, 10) :> "Poor")

\* rate >= bound on the exact values
AtLeast(rate, bound) == ~FixLess(rate, Float64Of(bound, 1))

\* C18: the health status of a success rate is Excellent from 95, Good from
\* 85 to below 95, Fair from 70 to below 85 and Poor below 70 (95.0
\* Excellent, 94.9 Good, 85.0 Good, 84.9 Fair, 70.0 Fair, 69.9 Poor); it is
\* one of these four values and never lower for a higher success rate.
C18_HealthStatusThresholds ==
    SummaryReturned =>
        LET rate   == fnArgs.enhanced.SuccessRate
            status == fnOut.summary.HealthStatus
        IN /\ status \in DOMAIN HealthRank
           /\ status = "Excellent" <=> AtLeast(rate, 95)
           /\ status = "Good" <=> (AtLeast(rate, 85) /\ ~AtLeast(rate, 95))
           /\ status = "Fair" <=> (AtLeast(rate, 70) /\ ~AtLeast(rate, 85))
           /\ status = "Poor" <=> ~AtLeast(rate, 70)
           /\ rate \in DOMAIN HealthExamples => status = HealthExamples[rate]
           /\ \A other \in SummaryRates :
                 FixLess(other, rate) =>
                     HealthRank[HealthStatusOf(other)] <= HealthRank[status]

\* a suite with 19 of 20 scenarios passed, whose success rate the builder
\* computes as 95.0, is Excellent
C18_Witness ==
    /\ SummaryReturned
    /\ fnArgs.enhanced.SuccessRate = Float64Times100(Float64Div(19, 20))
    /\ fnArgs.enhanced.SuccessRate = Float64Of(950, 10)
    /\ fnOut.summary.HealthStatus = "Excellent"

ExpectedRecommendation(summary) ==
    CASE summary.HealthStatus = "Excellent" ->
            "Continue maintaining high quality standards. Monitor for any new flaky tests."
      [] summary.HealthStatus # "Excellent" /\ Len(summary.CriticalIssues) >= 1 ->
            "Address critical failures immediately before proceeding with new deployments."
      [] summary.HealthStatus # "Excellent" /\ Len(summary.CriticalIssues) = 0
            /\ summary.TrendIndicator = "Declining" ->
            "Investigate declining success rate. Review recent changes and consider rolling back if necessary."
      [] OTHER ->
            "Focus on stabilizing failing scenarios. Prioritize fixes based on failure frequency."

\* C20: the recommendation is the maintain-standards text for the status
\* Excellent whatever else holds; otherwise the address-immediately text
\* when there is a critical issue, whatever the trend; otherwise the
\* investigate text when the trend is Declining; otherwise the stabilize
\* text; it is never empty.
C20_RecommendationByFirstRule ==
    SummaryReturned =>
        /\ fnOut.summary.Recommendation = ExpectedRecommendation(fnOut.summary)
        /\ fnOut.summary.Recommendation # ""

\* critical issues under a Declining trend: address-immediately, not Excellent
C20_Witness ==
    /\ SummaryReturned
    /\ fnOut.summary.HealthStatus = "Fair"
    /\ Len(fnOut.summary.CriticalIssues) = 1
    /\ fnOut.summary.TrendIndicator = "Declining"
    /\ fnOut.summary.Recommendation
          = "Address critical failures immediately before proceeding with new deployments."

AllPassedText == "All tests passed successfully - no failures detected"
SingleCauseText == "Single root cause identified - focused fix possible"

FailedOutOfText(failed, total) ==
    ToString(failed) \o " scenario(s) failed out of " \o ToString(total) \o " total"

PatternsText(n) == ToString(n) \o " unique failure patterns detected"
FlakyNoteText(n) == ToString(n) \o " flaky test(s) detected - needs stabilization"

Occurs(text, list) == \E i \in 1..Len(list) : list[i] = text

\* C21: the key insights start with the all-passed message for 0 failed
\* scenarios and else with the N-failed-out-of-M message; then comes the
\* single-root-cause message exactly for one failure group, or the
\* N-unique-patterns message exactly for two or more groups that are fewer
\* than the failed scenarios; last the flaky note exactly when there is a
\* flaky test; there is nothing else, so the list has 1 to 3 entries.
C21_KeyInsightsInOrder ==
    SummaryReturned =>
        LET insights == fnOut.summary.KeyInsights
            failed   == fnArgs.enhanced.FailedScenariosCount
            total    == fnArgs.enhanced.TotalScenariosCount
            nGroups  == Len(fnArgs.failureGroups)
            nFlaky   == Len(fnArgs.enhanced.FlakyTests)
            single   == nGroups = 1
            patterns == nGroups >= 2 /\ nGroups < failed
            note     == nFlaky >= 1
            size     == 1 + (IF single \/ patterns THEN 1 ELSE 0)
                          + (IF note THEN 1 ELSE 0)
        IN /\ Len(insights) = size
           /\ size \in 1..3
           /\ insights[1] = (IF failed = 0 THEN AllPassedText
                             ELSE FailedOutOfText(failed, total))
           /\ single => insights[2] = SingleCauseText
           /\ patterns => insights[2] = PatternsText(nGroups)
           /\ note => insights[size] = FlakyNoteText(nFlaky)
           /\ Occurs(SingleCauseText, insights) <=> single
           /\ Occurs(PatternsText(nGroups), insights) <=> patterns
           /\ Occurs(FlakyNoteText(nFlaky), insights) <=> note

\* two groups for exactly two failed scenarios and no flaky test: the
\* N-failed message alone
C21_Witness ==
    /\ SummaryReturned
    /\ Len(fnArgs.failureGroups) = 2
    /\ fnArgs.enhanced.FailedScenariosCount = 2
    /\ fnOut.summary.KeyInsights = <<FailedOutOfText(2, InsightTotal)>>

SeverityWithIssue == {"critical", "high"}

IssueLine(group) ==
    group.ErrorType \o ": " \o group.RootCause \o " (affects "
    \o ToString(group.Count) \o " scenario(s))"

\* C22: the critical issues are the lines of the failure groups of severity
\* critical or high, one per such group and in the order of the groups;
\* a group of another severity has no line.
C22_CriticalIssuesOfSevereGroups ==
    SummaryReturned =>
        LET issues == fnOut.summary.CriticalIssues
            list   == fnArgs.failureGroups
            severe == {i \in 1..Len(list) : list[i].Severity \in SeverityWithIssue}
            rank(i) == Cardinality({j \in severe : j <= i})
        IN /\ Len(issues) = Cardinality(severe)
           /\ \A i \in severe : issues[rank(i)] = IssueLine(list[i])

\* a critical group after a high group: two lines, the high one first
C22_Witness ==
    /\ SummaryReturned
    /\ Len(fnArgs.failureGroups) = 2
    /\ fnArgs.failureGroups[1].Severity = "high"
    /\ fnArgs.failureGroups[2].Severity = "critical"
    /\ Len(fnOut.summary.CriticalIssues) = 2
    /\ fnOut.summary.CriticalIssues[1] = IssueLine(fnArgs.failureGroups[1])
    /\ fnOut.summary.CriticalIssues[1] # fnOut.summary.CriticalIssues[2]

-----------------------------------------------------------------------------
(* BuildReport.                                                            *)

\* GenerateTrends and DetectFlakyTests have returned into BuildReport
AnalyticsDone ==
    /\ "proto" \in DOMAIN fnArgs
    /\ "enhanced" \in DOMAIN fnOut
    /\ "FlakyTests" \in DOMAIN fnOut.enhanced
\* the insights are attached and the save, if there was one, has returned
ReportBuilt ==
    /\ AnalyticsDone
    /\ "AIInsights" \in DOMAIN fnOut
    /\ "save" \in DOMAIN fnOut

\* C16: without a database DetectFlakyTests returns the empty list and
\* GenerateTrends a TrendData with no historical run and no prediction,
\* BuildReport does not attempt to save the run, and the failure groups
\* (the eight fields BuildReport copies of each) and the executive summary
\* are computed and attached, the summary with the trend indicator
\* Baseline.
C16_NilDatabaseDegrades ==
    /\ (AnalyticsDone /\ fnArgs.db = Nil) =>
          /\ fnOut.enhanced.FlakyTests = <<>>
          /\ fnOut.enhanced.Trends # Nil
          /\ Deref(fnOut.enhanced.Trends).HistoricalRuns = <<>>
          /\ Deref(fnOut.enhanced.Trends).Predictions = Nil
    /\ (ReportBuilt /\ fnArgs.db = Nil) =>
          /\ ~fnOut.save.attempted
          /\ fnOut.save.result = [db |-> Nil, err |-> Nil]
          /\ fnOut.AIInsights.FailureGroups = ModelFailureGroups(LastReturned)
          /\ SumOfCounts(fnOut.AIInsights.FailureGroups) = Cardinality(Contributors)
          /\ fnOut.AIInsights.ExecutiveSummary.TrendIndicator = "Baseline"
          /\ fnOut.AIInsights.ExecutiveSummary.HealthStatus
                = HealthStatusOf(fnOut.enhanced.SuccessRate)
          /\ Len(fnOut.AIInsights.ExecutiveSummary.KeyInsights) >= 1
          /\ fnOut.AIInsights.ExecutiveSummary.Recommendation # ""

\* a report built without a database for two scenarios failed in two ways
C16_Witness ==
    /\ ReportBuilt
    /\ fnArgs.db = Nil
    /\ Len(fnOut.AIInsights.FailureGroups) = 2
    /\ fnOut.AIInsights.ExecutiveSummary.HealthStatus = "Poor"
    /\ Len(fnOut.AIInsights.ExecutiveSummary.CriticalIssues) = 1

IndicatorOfTrend ==
    ("improving" :> "Improving") @@ ("degrading" :> "Declining")
    @@ ("stable" :> "Stable")

\* C19: with at least 2 historical runs the trend indicator of the summary
\* is Improving, Declining or Stable by the difference of the last two
\* historical success rates against 5 and -5, and so names the same trend
\* as the QualityTrend of the trend data; with fewer runs it is Baseline.
C19_IndicatorFromLastTwoPoints ==
    ReportBuilt =>
        LET data == Deref(fnOut.enhanced.Trends)
            runs == data.HistoricalRuns
            n    == Len(runs)
            indicator == fnOut.AIInsights.ExecutiveSummary.TrendIndicator
        IN IF n >= 2
           THEN /\ indicator
                      = IndicatorOfTrend[ExpectedQualityTrend(runs[n], runs[n - 1])]
                /\ indicator = IndicatorOfTrend[Deref(data.Predictions).QualityTrend]
           ELSE indicator = "Baseline"

-----------------------------------------------------------------------------
(* The converted run.                                                      *)

Converted == DOMAIN fnArgs = {"proto"} /\ "enhanced" \in DOMAIN fnOut

\* the upstream scenarios of the run, in order, and their converted ones
UpstreamScenarios ==
    IF Len(fnArgs.proto.SpecResults) = 0 THEN <<>>
    ELSE SelectSeq(fnArgs.proto.SpecResults[1].Items, IsScenarioItem)

ConvertedScenarios ==
    IF Len(fnOut.enhanced.SpecResults) = 0 THEN <<>>
    ELSE fnOut.enhanced.SpecResults[1].Scenarios

\* the bits of 100 * passed / total, cut after FixFrac binary places
ExactPercent(passed, total) ==
    DivideBits((100 * passed) % total, total, FixInt + 1,
               IntBits((100 * passed) \div total)).bits

\* |a - b| < 2^-(MantissaBits - FixInt), which is beyond what float64
\* tells apart for values from 64 on
Float64Near(a, b) ==
    LET diff == IF FixLess(a, b) THEN FixSub(b, a) ELSE FixSub(a, b)
    IN LeadingOne(diff, 1) > MantissaBits

\* C23: a converted scenario is failed exactly when the upstream scenario
\* is marked failed or one of its converted steps is failed; the failed
\* scenarios, the skipped ones that are not failed and the others are
\* counted as failed, skipped and passed, so the three counts sum to the
\* total; the success rate is 100 * passed / total (as float64), and 0
\* without scenarios.
C23_ScenarioFailedAndCounts ==
    Converted =>
        LET e == fnOut.enhanced
            n == Len(ConvertedScenarios)
            failedAt  == {j \in 1..n : ConvertedScenarios[j].Failed}
            skippedAt == {j \in 1..n : ConvertedScenarios[j].Skipped} \ failedAt
        IN /\ n = Len(UpstreamScenarios)
           /\ \A j \in 1..n :
                 ConvertedScenarios[j].Failed <=>
                    \/ UpstreamScenarios[j].Scenario.Failed
                    \/ \E i \in 1..Len(ConvertedScenarios[j].Steps) :
                          ConvertedScenarios[j].Steps[i].Failed
           /\ e.TotalScenariosCount = n
           /\ e.FailedScenariosCount = Cardinality(failedAt)
           /\ e.SkippedScenariosCount = Cardinality(skippedAt)
           /\ e.PassedScenariosCount = Cardinality((1..n) \ (failedAt \cup skippedAt))
           /\ e.PassedScenariosCount + e.FailedScenariosCount
                 + e.SkippedScenariosCount = e.TotalScenariosCount
           /\ IF n = 0 THEN e.SuccessRate = Float64Zero
              ELSE /\ Float64Near(e.SuccessRate,
                                  ExactPercent(e.PassedScenariosCount, n))
                   /\ e.PassedScenariosCount = n => e.SuccessRate = IntBits(100)
                                                        \o [i \in 1..FixFrac |-> 0]
                   /\ e.PassedScenariosCount = 0 => e.SuccessRate = Float64Zero

\* a scenario that upstream marks skipped and not failed but that holds a
\* failed step is counted as failed, next to two passed ones
C23_Witness ==
    /\ Converted
    /\ Len(UpstreamScenarios) = 3
    /\ ~UpstreamScenarios[1].Scenario.Failed
    /\ UpstreamScenarios[1].Scenario.Skipped
    /\ ConvertedScenarios[1].Failed
    /\ fnOut.enhanced.FailedScenariosCount = 1
    /\ fnOut.enhanced.SkippedScenariosCount = 0
    /\ fnOut.enhanced.PassedScenariosCount = 2
    /\ Float64Less(Float64Of(666, 10), fnOut.enhanced.SuccessRate)
    /\ Float64Less(fnOut.enhanced.SuccessRate, Float64Of(667, 10))

-----------------------------------------------------------------------------
(* Plugin shutdown.                                                        *)

KillRan == plugin # NoValue /\ \E k \in 1..MaxKills : plugin.kill[k] # "idle"

\* C24: whatever the order of the steps of the Kill handlers and of the
\* serving goroutine, close(p.stopChan) is executed at most once, so no
\* execution closes the closed channel and panics.
C24_StopChanClosedAtMostOnce ==
    plugin # NoValue => (plugin.closes <= 1 /\ ~plugin.panicked)

\* C30: once a Kill handler has run in a serving plugin, Start eventually
\* returns nil.
C30_KillMakesStartReturn ==
    KillRan ~> (plugin.start = "nil")

-----------------------------------------------------------------------------
(* The history a report is built from.                                     *)

RunSaved ==
    /\ ReportBuilt
    /\ fnOut.save.attempted
    /\ fnOut.save.result.err = Nil

\* rows this call inserted into scenario_history for the scenario name
RowsWrittenFor(name) ==
    Cardinality({i \in DOMAIN fnOut.save.result.writes :
                    /\ fnOut.save.result.writes[i].table = HistoryTable
                    /\ fnOut.save.result.writes[i].row.scenario_name = name})

\* the SaveExecutionData of BuildReport is running
SavingReport == "proto" \in DOMAIN fnArgs /\ Saving

\* C25: BuildReport inserts no row before GenerateTrends, DetectFlakyTests
\* and the executive summary have returned; when no other process writes
\* to the file, the trend points, the flaky tests and the trend indicator
\* of a report are those of the database as it was before the run, and for
\* whoever reads the database next the saved run is one more point, after
\* the runs of an earlier second and before those of its own second and
\* later, and one more run of each of its scenarios.
C25_OwnRunNotInItsHistory ==
    /\ SavingReport => (AnalyticsDone /\ "AIInsights" \in DOMAIN fnOut)
    /\ ("proto" \in DOMAIN fnArgs /\ Detecting) => fnOut.queries = <<>>
    /\ (ReportBuilt /\ Quiet) =>
        LET trends == Deref(fnOut.enhanced.Trends)
            flaky  == fnOut.enhanced.FlakyTests
        IN /\ Len(trends.HistoricalRuns) = Len(RetrievedPoints)
           /\ \A i \in 1..Len(RetrievedPoints) :
                 /\ trends.HistoricalRuns[i].SuccessRate = RetrievedPoints[i].SuccessRate
                 /\ trends.HistoricalRuns[i].PassedCount = RetrievedPoints[i].Passed
           /\ \A i \in 1..Len(flaky) :
                 /\ flaky[i].Occurrences = RunsInWindow(flaky[i].ScenarioName)
                 /\ flaky[i].FlakyScore
                       = FlakyScore(FailedInWindow(flaky[i].ScenarioName),
                                    RunsInWindow(flaky[i].ScenarioName))
           /\ Len(RetrievedPoints) < 2 =>
                 fnOut.AIInsights.ExecutiveSummary.TrendIndicator = "Baseline"
           /\ RunSaved =>
                 LET after == Deref(fnOut.save.result.db)
                     later == GetTrendData(after, WindowDays).trends
                 IN /\ Len(later) = Len(RetrievedPoints) + 1
                    /\ \E k \in 1..Len(later) :
                          /\ SubSeq(later, 1, k - 1)
                                \o SubSeq(later, k + 1, Len(later))
                                = RetrievedPoints
                          /\ later[k].Timestamp = 0
                          /\ later[k].Seconds = 0
                          /\ later[k].SuccessRate = fnOut.enhanced.SuccessRate
                          /\ later[k].Total = fnOut.enhanced.TotalScenariosCount
                          /\ \A i \in 1..(k - 1) :
                                later[i].Timestamp > 0 \/ later[i].Seconds < 0
                          /\ \A i \in (k + 1)..Len(later) :
                                later[i].Timestamp = 0 /\ later[i].Seconds >= 0
                    /\ \A p \in ScenarioPositions :
                          BagCardinality(GetScenarioHistory(
                              after, ScenarioAt(p).ScenarioHeading, WindowDays))
                          = RunsInWindow(ScenarioAt(p).ScenarioHeading)
                            + RowsWrittenFor(ScenarioAt(p).ScenarioHeading)

\* a saved run over a database of two older executions and one stored in
\* the second of this run's conversion, with five runs of a flaky scenario:
\* three points and five occurrences in the report; afterwards four
\* points, this run the third of them, before the run of its own second,
\* and six runs
C25_Witness ==
    /\ RunSaved
    /\ Quiet
    /\ Len(RetrievedPoints) = 3
    /\ RetrievedPoints[3] = SameSecondPoint
    /\ Len(Deref(fnOut.enhanced.Trends).HistoricalRuns) = 3
    /\ Len(fnOut.enhanced.FlakyTests) = 1
    /\ fnOut.enhanced.FlakyTests[1].Occurrences = 5
    /\ Len(Deref(fnOut.save.result.db).executions) = 4
    /\ Deref(fnOut.save.result.db).executions[3].SuccessRate
          = fnOut.enhanced.SuccessRate
    /\ Deref(fnOut.save.result.db).executions[3] # SameSecondPoint
    /\ Deref(fnOut.save.result.db).executions[4] = SameSecondPoint
    /\ BagCardinality(GetScenarioHistory(Deref(fnOut.save.result.db),
                                         fnOut.enhanced.FlakyTests[1].ScenarioName,
                                         WindowDays)) = 6

-----------------------------------------------------------------------------
(* What SaveExecutionData stores.                                          *)

Saved == "executionID" \in DOMAIN fnArgs /\ "save" \in DOMAIN fnOut

\* the scenarios of the run handed to SaveExecutionData, in order
SavedScenarios ==
    IF Len(fnArgs.enhanced.SpecResults) = 0 THEN <<>>
    ELSE fnArgs.enhanced.SpecResults[1].Scenarios

\* C26: without a database, or when the execution record cannot be saved,
\* SaveExecutionData returns an error and stores nothing; otherwise it
\* returns nil, the first row it stores is the execution record, every
\* scenario row it stores comes later and carries that execution's id,
\* every scenario is handed to SaveScenario whether or not an earlier one
\* failed, with the status failed if Failed, else skipped if Skipped, else
\* passed, and the rows stored are those whose save did not fail.  This
\* holds at every statement of the call, whatever other processes do to
\* the file in between.
C26_ExecutionRecordFirst ==
    /\ Saving =>
          /\ running.at = "execution" => running.writes = <<>>
          /\ running.at = "scenario" =>
                /\ Len(running.writes) >= 1
                /\ running.writes[1].table = ExecutionsTable
          /\ running.at = "return" =>
                (running.err # Nil /\ running.writes = <<>>)
    /\ Saved =>
        LET r == fnOut.save
            n == Len(SavedScenarios)
        IN /\ fnArgs.db = Nil => r.err # Nil
           /\ (Quiet /\ fnArgs.db # Nil) =>
                 ((r.err # Nil) <=> Deref(fnArgs.db).broken)
           /\ r.err # Nil =>
                 /\ r.writes = <<>>
                 /\ r.attempts = <<>>
                 /\ Quiet => r.db \in {Nil, fnArgs.db}
           /\ r.err = Nil =>
                 /\ Len(r.writes) >= 1
                 /\ r.writes[1].table = ExecutionsTable
                 /\ \A i \in 2..Len(r.writes) :
                       /\ r.writes[i].table = HistoryTable
                       /\ \E j \in 1..(i - 1) :
                             /\ r.writes[j].table = ExecutionsTable
                             /\ r.writes[j].row.id = r.writes[i].row.execution_id
                 /\ Len(r.attempts) = n
                 /\ \A k \in 1..n :
                       /\ r.attempts[k].scenario_name = SavedScenarios[k].ScenarioHeading
                       /\ r.attempts[k].status =
                             (IF SavedScenarios[k].Failed THEN "failed"
                              ELSE IF SavedScenarios[k].Skipped THEN "skipped"
                              ELSE "passed")
                 /\ fnArgs.faults \subseteq r.failed
                 /\ Quiet => r.failed = fnArgs.faults
                 /\ Len(r.writes) - 1 = n - Cardinality(r.failed)
                 /\ \A k \in 1..n :
                       <<1, k>> \notin r.failed <=>
                          \E i \in 2..Len(r.writes) : r.writes[i].row = r.attempts[k]
                 /\ Quiet =>
                       /\ BagCardinality(Deref(r.db).scenario_history)
                             = BagCardinality(Deref(fnArgs.db).scenario_history)
                               + Len(r.writes) - 1
                       /\ Len(Deref(r.db).executions)
                             = Len(Deref(fnArgs.db).executions) + 1

\* the save of the first scenario fails; the second, marked skipped and
\* failed at a step, is still stored, as failed, and the call returns nil
C26_Witness ==
    /\ Saved
    /\ fnArgs.faults = {<<1, 1>>}
    /\ Len(SavedScenarios) = 2
    /\ SavedScenarios[2].Skipped
    /\ fnOut.save.err = Nil
    /\ Len(fnOut.save.attempts) = 2
    /\ Len(fnOut.save.writes) = 2
    /\ fnOut.save.writes[2].row.status = "failed"
    /\ fnOut.save.writes[2].row.scenario_name = HeadingAt("Scenario", 2)
    \* on a file that held a run of the same second: the saved run is read
    \* back before it
    /\ Quiet
    /\ Len(Deref(fnArgs.db).executions) = 2
    /\ Deref(fnArgs.db).executions[2] = SameSecondPoint
    /\ Len(Deref(fnOut.save.db).executions) = 3
    /\ Deref(fnOut.save.db).executions[2] = ExecutionPoint(fnArgs.enhanced)
    /\ ExecutionPoint(fnArgs.enhanced) # SameSecondPoint
    /\ Deref(fnOut.save.db).executions[3] = SameSecondPoint

-----------------------------------------------------------------------------
(* Termination of renderSpecPages.                                         *)

RenderReturned == render # NoValue /\ render.main = "returned"

\* every goroutine has run to its end and the semaphore is empty
RenderersDone ==
    /\ \A i \in 1..render.specs : render.go[i] = "end"
    /\ render.semaphore = 0
    /\ render.wg = 0

\* C27: for every number of specs and every MaxConcurrentGen, the call of
\* renderSpecPages eventually returns, with every goroutine ended and the
\* semaphore released, nil when no render failed and the error of a failed
\* render otherwise.
C27_RenderSpecPagesTerminates ==
    <>(/\ RenderReturned
       /\ RenderersDone
       /\ IF render.failed = {} THEN render.firstError = 0
          ELSE render.firstError \in render.failed)

-----------------------------------------------------------------------------
(* The fields of an emitted FlakyTest.                                     *)

Float64Hundred == IntBits(100) \o [i \in 1..FixFrac |-> 0]

\* C28: every FlakyTest DetectFlakyTests emits has at least 3 occurrences,
\* a failure rate from 0 to 100, and the flaky score of its failure rate:
\* the rate is 100 * failed / Occurrences and the score
\* 1 - 2 * |failed / Occurrences - 0.5| for one number of failed runs,
\* also when the history query fails or reads other rows than the score
\* query did.
C28_FlakyTestConsistent ==
    DetectFlakyTestsReturned =>
        \A i \in DOMAIN fnOut.flakyTests :
            LET ft == fnOut.flakyTests[i]
            IN /\ ft.Occurrences >= MinRuns
               /\ ~Float64Less(ft.FailureRate, Float64Zero)
               /\ ~Float64Less(Float64Hundred, ft.FailureRate)
               /\ \E failed \in 0..ft.Occurrences :
                     /\ ft.FailureRate =
                           Float64Times100(Float64Div(failed, ft.Occurrences))
                     /\ ft.FlakyScore = FlakyScore(failed, ft.Occurrences)

-----------------------------------------------------------------------------
(* The summary of a run without failures.                                  *)

StabilizeText ==
    "Focus on stabilizing failing scenarios. Prioritize fixes based on failure frequency."

\* C29: in a built report whose converted suite has no failed scenario
\* (the suite may be empty, or hold only skipped scenarios), when the first
\* key insight says that all tests passed, the health status is not Poor
\* and the recommendation is not the one to stabilize failing scenarios.
C29_NoFailureSummaryConsistent ==
    (ReportBuilt /\ fnOut.enhanced.FailedScenariosCount = 0) =>
        LET summary == fnOut.AIInsights.ExecutiveSummary
        IN summary.KeyInsights[1] = AllPassedText =>
              /\ summary.HealthStatus # "Poor"
              /\ summary.Recommendation # StabilizeText

====
